---- MODULE Spec2Model ----
(***************************************************************************)
(* PortExec: the guarded kill protocol (internal/killer), the critical-    *)
(* process classifier (internal/models) and the connection scan            *)
(* (internal/ports) that feeds the consumers.                              *)
(*                                                                         *)
(* Go strings are TLA+ strings; Len, \o, SubSeq, Head and Tail act on them *)
(* character by character.                                                 *)
(***************************************************************************)
EXTENDS Integers, Sequences, FiniteSets, TLC

VARIABLES
    procs,        \* the OS process table: pid -> process name, or NoProc
    osKill,       \* what the OS answers to a forced stop (p.Kill) of a live process
    osTerm,       \* what the OS answers to a graceful stop (p.Terminate) of a live process
    entries,      \* the entry list of the consumer's last scan
    pc,           \* position of the running Killer call
    entryPoint,   \* the Killer method the consumer called
    kpid,         \* its pid argument
    expectedName, \* KillWithName's expectedName argument
    verName,      \* KillWithName's procName
    procName,     \* Kill's procName
    nameErr,      \* the error of the call's last getProcessName
    calls,        \* OS termination primitives invoked by the call, in order
    result,       \* the Result the call returned
    clsName,      \* the name handed to IsCriticalProcess
    clsOut,       \* its verdict
    fltCriteria,  \* the FilterCriteria that Matches is called on
    fltEntry,     \* the PortEntry handed to Matches
    fltOut,       \* its verdict
    conns,        \* the OS connection table (what net.Connections("all") answers)
    readable,     \* pid -> whether the OS answers the name query of that process
    createTime,   \* pid -> what the OS answers to CreateTime, in ms (0: the query fails)
    now,          \* the wall clock, in seconds
    changes,      \* how many times the OS state changed so far
    scan,         \* the GetConnections calls in progress: call -> its locals and history
    app,          \* how the program was started: "tui" or "cli"
    m,            \* the TUI Model (its entries field is the variable entries)
    cmds,         \* refresh commands handed to the runtime and not yet run
    rmsg,         \* the refresh command past its refreshing test, and its message
    run,          \* "running", or how the TUI ended: "quit" (tea.Quit) or "panic"
    cli,          \* killByPort's locals: position, pidMap keys left, hasError
    event,        \* the key event Update is still handling, and what was on screen
    owed,         \* a kill from the TUI succeeded and no later scan has been shown yet
    getArg,       \* the pid handed to Getter.GetProcessInfo and what the OS answers about it
    getOut        \* the ProcessInfo and error it returned

vars == <<procs, osKill, osTerm, entries, pc, entryPoint, kpid, expectedName,
          verName, procName, nameErr, calls, result, clsName, clsOut,
          fltCriteria, fltEntry, fltOut,
          conns, readable, createTime, now, changes, scan,
          app, m, cmds, rmsg, run, cli, event, owed, getArg, getOut>>

osVars   == <<procs, osKill, osTerm>>
callVars == <<pc, entryPoint, kpid, expectedName, verName, procName, nameErr, calls, result>>
clsVars  == <<clsName, clsOut>>
fltVars  == <<fltCriteria, fltEntry, fltOut>>
scanVars == <<conns, readable, createTime, now, changes, scan>>
appVars  == <<app, m, cmds, rmsg, run, cli, event, owed>>
getVars  == <<getArg, getOut>>

\* the variables of the kill protocol, and all the others
killVars == <<osVars, entries, callVars>>
restVars == <<clsVars, fltVars, getVars, scanVars, appVars>>

-----------------------------------------------------------------------------
(* Bounds *)

MaxPid == 2

PIDs == 1..MaxPid

-----------------------------------------------------------------------------
(* Go string helpers *)

Uppers == "ABCDEFGHIJKLMNOPQRSTUVWXYZ"
Lowers == "abcdefghijklmnopqrstuvwxyz"

\* the lower-case letter of each upper-case letter
UpperToLower ==
    [c \in {SubSeq(Uppers, i, i) : i \in 1..Len(Uppers)} |->
        LET i == CHOOSE j \in 1..Len(Uppers) : SubSeq(Uppers, j, j) = c
        IN  SubSeq(Lowers, i, i)]

LowerChar(c) == IF c \in DOMAIN UpperToLower THEN UpperToLower[c] ELSE c

RECURSIVE ToLower(_)
ToLower(s) == IF s = "" THEN "" ELSE LowerChar(SubSeq(s, 1, 1)) \o ToLower(Tail(s))

HasPrefix(s, prefix) == Len(s) >= Len(prefix) /\ SubSeq(s, 1, Len(prefix)) = prefix

StringsContains(s, substr) ==
    \E i \in 0..(Len(s) - Len(substr)) : SubSeq(s, i + 1, i + Len(substr)) = substr

Digits == "0123456789"

RECURSIVE FormatInt(_)
FormatInt(n) ==
    IF n < 10 THEN SubSeq(Digits, n + 1, n + 1)
    ELSE FormatInt(n \div 10) \o SubSeq(Digits, (n % 10) + 1, (n % 10) + 1)

-----------------------------------------------------------------------------
(* internal/models: the critical-process classifier *)

CriticalSystemProcesses ==
    [k \in {"System", "wininit", "services", "lsass", "svchost", "csrss",
            "winlogon", "smss", "dwm", "explorer", "Registry", "smss.exe",
            "csrss.exe", "wininit.exe", "services.exe", "lsass.exe",
            "svchost.exe", "winlogon.exe", "dwm.exe"} |-> k # "explorer"]

\* a Go map read: the zero value (false) for an absent key
MapLookup(name) ==
    IF name \in DOMAIN CriticalSystemProcesses THEN CriticalSystemProcesses[name] ELSE FALSE

\* IsCriticalProcess matching the svchost prefix in lower case only
IsCriticalProcess_CaseSensitive(name) ==
    IF MapLookup(name) THEN TRUE
    ELSE IF MapLookup(name \o ".exe") THEN TRUE
    ELSE IF HasPrefix(name, "svchost") THEN TRUE
    ELSE FALSE

IsCriticalProcess(name) ==
    IF MapLookup(name) THEN TRUE
    ELSE IF MapLookup(name \o ".exe") THEN TRUE
    ELSE IF HasPrefix(ToLower(name), "svchost") THEN TRUE
    ELSE FALSE

HasSuffix(s, suffix) ==
    Len(s) >= Len(suffix) /\ SubSeq(s, Len(s) - Len(suffix) + 1, Len(s)) = suffix

\* a table key without its ".exe"
BaseForm(k) == IF HasSuffix(k, ".exe") THEN SubSeq(k, 1, Len(k) - 4) ELSE k

UpperChar(c) ==
    LET hits == {i \in 1..Len(Lowers) : SubSeq(Lowers, i, i) = c}
    IN  IF hits = {} THEN c
        ELSE LET i == CHOOSE j \in hits : TRUE IN SubSeq(Uppers, i, i)

\* every spelling of s in upper and lower case letters
RECURSIVE CaseVariants(_)
CaseVariants(s) ==
    IF s = "" THEN {""}
    ELSE {c \o rest : c \in {SubSeq(s, 1, 1), UpperChar(SubSeq(s, 1, 1))},
                      rest \in CaseVariants(Tail(s))}

SvchostSpellings == CaseVariants("svchost")

\* the names the classifier is exercised on
ClsNames ==
    (DOMAIN CriticalSystemProcesses)
    \cup {BaseForm(k) : k \in DOMAIN CriticalSystemProcesses}
    \cup {BaseForm(k) \o ".exe" : k \in DOMAIN CriticalSystemProcesses}
    \cup {v \o suffix : v \in SvchostSpellings, suffix \in {"", ".exe", "-net"}}
    \cup {"", "node.exe", "chrome", "system", "LSASS", "Explorer", "xsvchost",
          "svchos", "svc host", "lsass.exe.exe", "my-svchost.exe"}

Verdict(b) == IF b THEN "true" ELSE "false"

\* IsCriticalProcess(clsName) is called
Classify ==
    /\ clsOut = "none"
    /\ clsOut' = Verdict(IsCriticalProcess(clsName))
    /\ UNCHANGED clsName
    /\ UNCHANGED <<killVars, fltVars, getVars, scanVars, appVars>>

-----------------------------------------------------------------------------
(* internal/models: FilterCriteria *)

IsEmpty(f) == f.Port = "" /\ f.ProcessName = "" /\ f.PID = ""

\* Matches comparing the process name in the case it is written in
Matches_CaseSensitive(f, entry) ==
    IF ~IsEmpty(f)
    THEN IF f.Port # "" /\ ~(f.Port = FormatInt(entry.Port)
                             \/ StringsContains(FormatInt(entry.Port), f.Port))
         THEN FALSE
         ELSE IF f.ProcessName # "" /\ ~StringsContains(entry.ProcessName, f.ProcessName)
         THEN FALSE
         ELSE IF f.PID # "" /\ ~(f.PID = FormatInt(entry.PID)
                                 \/ StringsContains(FormatInt(entry.PID), f.PID))
         THEN FALSE
         ELSE TRUE
    ELSE TRUE

Matches(f, entry) ==
    IF ~IsEmpty(f)
    THEN IF f.Port # "" /\ ~(f.Port = FormatInt(entry.Port)
                             \/ StringsContains(FormatInt(entry.Port), f.Port))
         THEN FALSE
         ELSE IF f.ProcessName # ""
                 /\ ~StringsContains(ToLower(entry.ProcessName), ToLower(f.ProcessName))
         THEN FALSE
         ELSE IF f.PID # "" /\ ~(f.PID = FormatInt(entry.PID)
                                 \/ StringsContains(FormatInt(entry.PID), f.PID))
         THEN FALSE
         ELSE TRUE
    ELSE TRUE

FilterCriteria(port, name, pid) == [Port |-> port, ProcessName |-> name, PID |-> pid]

\* the criteria and the entries Matches is exercised on
FltCriteriaSet ==
    {FilterCriteria(port, name, pid) :
        port \in {"", "80", "8080", "08", "443", "9"},
        name \in {"", "CHROME", "chrome", "Node", ".EXE", "x"},
        pid  \in {"", "4321", "32", "7"}}

FltEntries ==
    {[Port |-> 8080, PID |-> 4321, ProcessName |-> "chrome.exe"],
     [Port |-> 80,   PID |-> 7,    ProcessName |-> "node.exe"],
     [Port |-> 443,  PID |-> 32,   ProcessName |-> "Chrome Helper"],
     [Port |-> 0,    PID |-> 100,  ProcessName |-> ""]}

FltIdle ==
    /\ fltCriteria = FilterCriteria("", "", "")
    /\ fltEntry = [Port |-> 0, PID |-> 0, ProcessName |-> ""]
    /\ fltOut = "none"

\* fltCriteria.Matches(fltEntry) is called
CallMatches ==
    /\ fltOut = "none"
    /\ fltOut' = Verdict(Matches(fltCriteria, fltEntry))
    /\ UNCHANGED <<fltCriteria, fltEntry>>
    /\ UNCHANGED <<killVars, clsVars, getVars, scanVars, appVars>>

-----------------------------------------------------------------------------
(* The operating system *)

NoProc == "<no process>"
Nil    == "<nil>"
NoName == "<unset>"

\* names the OS gives its processes
ProcNames == {"node.exe", "lsass.exe", "SvcHost-net"}

\* names a caller of KillWithName expects
ExpectedNames == ProcNames \cup {"NODE.EXE"}

\* process.NewProcess on a pid nobody occupies
ErrNotExist == "process does not exist"
\* p.Name() failing on a live process
ErrName == "could not read process name"
\* a termination primitive reaching a process that is gone
ErrFinished == "os: process already finished"
\* what the OS says when it denies a termination primitive on a live process
OsErrors == {"access is denied", "TerminateProcess: Access is denied.",
             "ACCESS IS DENIED", "kill: operation not permitted",
             "Operation Not Permitted", "invalid argument"}

Exists(pid) == procs[pid] # NoProc

-----------------------------------------------------------------------------
(* internal/killer *)

Result(success, message, error) ==
    [Success |-> success, Message |-> message, Error |-> error]

NoResult == [Success |-> FALSE, Message |-> "", Error |-> NoName]

containsHelper(s, substr) ==
    \E i \in 0..(Len(s) - Len(substr)) : SubSeq(s, i + 1, i + Len(substr)) = substr

contains(s, substr) ==
    Len(s) >= Len(substr) /\ (s = substr \/ (Len(s) > 0 /\ containsHelper(s, substr)))

\* handleError whose generic message leaves the error text out
handleError_NoRaw(err, pid, name) ==
    IF contains(err, "access is denied") \/ contains(err, "Access is denied")
    THEN Result(FALSE, "Access denied. Run as Administrator to kill process "
                       \o FormatInt(pid) \o " (" \o name \o ")", err)
    ELSE IF contains(err, "operation not permitted")
    THEN Result(FALSE, "Operation not permitted. Run as Administrator to kill process "
                       \o FormatInt(pid) \o " (" \o name \o ")", err)
    ELSE Result(FALSE, "Failed to kill process " \o FormatInt(pid) \o " (" \o name \o ")", err)

handleError(err, pid, name) ==
    IF contains(err, "access is denied") \/ contains(err, "Access is denied")
    THEN Result(FALSE, "Access denied. Run as Administrator to kill process "
                       \o FormatInt(pid) \o " (" \o name \o ")", err)
    ELSE IF contains(err, "operation not permitted")
    THEN Result(FALSE, "Operation not permitted. Run as Administrator to kill process "
                       \o FormatInt(pid) \o " (" \o name \o ")", err)
    ELSE Result(FALSE, "Failed to kill process " \o FormatInt(pid) \o " (" \o name
                       \o "): " \o err, err)

\* the <<name, err>> pairs getProcessName can return for pid
getProcessName(pid) ==
    IF ~Exists(pid) THEN {<<"", ErrNotExist>>}
    ELSE {<<procs[pid], Nil>>, <<"", ErrName>>}

\* one invocation of a termination primitive on pid: <<error, process table after>>
Primitive(pid, allowed) ==
    IF ~Exists(pid) THEN {<<ErrFinished, procs>>}
    ELSE IF allowed THEN {<<Nil, [procs EXCEPT ![pid] = NoProc]>>}
    ELSE {<<e, procs>> : e \in OsErrors}

\* the record of one primitive invocation: which, on whom, and whether it succeeded
Invoked(prim, pid, err) == [prim |-> prim, target |-> procs[pid], ok |-> err = Nil]

Finish(r) == pc' = "done" /\ result' = r

\* control enters Kill(pid); the OS's disposition towards this call is open
EnterKill(pid) ==
    /\ pc' = "Kill.name"
    /\ entryPoint' = "Kill"
    /\ kpid' = pid
    /\ osKill' \in BOOLEAN
    /\ osTerm' \in BOOLEAN
    /\ UNCHANGED <<procs, expectedName, verName, procName, nameErr, calls, result>>

\* the consumer calls Kill(pid)
CallKill(pid) ==
    /\ pc = "idle"
    /\ EnterKill(pid)
    /\ UNCHANGED entries
    /\ UNCHANGED restVars

\* Kill_getProcessName with the critical-process check left out
Kill_getProcessName_NoCheck ==
    /\ pc = "Kill.name"
    /\ \E r \in getProcessName(kpid) :
        /\ nameErr' = r[2]
        /\ IF r[2] # Nil
           THEN /\ Finish(Result(FALSE, "Failed to get process name: " \o r[2], r[2]))
                /\ UNCHANGED procName
           ELSE /\ procName' = r[1]
                /\ pc' = "Kill.open"
                /\ UNCHANGED result
    /\ UNCHANGED <<osVars, entries, entryPoint, kpid, expectedName, verName, calls>>
    /\ UNCHANGED restVars

\* Kill_getProcessName deciding by the protected flag of the last scan when it has one
Kill_getProcessName_TrustScan ==
    /\ pc = "Kill.name"
    /\ \E r \in getProcessName(kpid) :
        /\ nameErr' = r[2]
        /\ IF r[2] # Nil
           THEN /\ Finish(Result(FALSE, "Failed to get process name: " \o r[2], r[2]))
                /\ UNCHANGED procName
           ELSE /\ procName' = r[1]
                /\ IF IF \E i \in 1..Len(entries) : entries[i].PID = kpid
                      THEN \E i \in 1..Len(entries) :
                               entries[i].PID = kpid /\ entries[i].IsSystem
                      ELSE IsCriticalProcess(r[1])
                   THEN Finish(Result(FALSE, "Refusing to kill critical system process: "
                                             \o r[1], "critical system process"))
                   ELSE pc' = "Kill.open" /\ UNCHANGED result
    /\ UNCHANGED <<osVars, entries, entryPoint, kpid, expectedName, verName, calls>>
    /\ UNCHANGED restVars

\* Kill_getProcessName going on to terminate when the name could not be resolved
Kill_getProcessName_IgnoreErr ==
    /\ pc = "Kill.name"
    /\ \E r \in getProcessName(kpid) :
        /\ nameErr' = r[2]
        /\ procName' = r[1]
        /\ IF IsCriticalProcess(r[1])
           THEN Finish(Result(FALSE, "Refusing to kill critical system process: "
                                     \o r[1], "critical system process"))
           ELSE pc' = "Kill.open" /\ UNCHANGED result
    /\ UNCHANGED <<osVars, entries, entryPoint, kpid, expectedName, verName, calls>>
    /\ UNCHANGED restVars

\* Kill: getProcessName, then the critical-process check
Kill_getProcessName ==
    /\ pc = "Kill.name"
    /\ \E r \in getProcessName(kpid) :
        /\ nameErr' = r[2]
        /\ IF r[2] # Nil
           THEN /\ Finish(Result(FALSE, "Failed to get process name: " \o r[2], r[2]))
                /\ UNCHANGED procName
           ELSE /\ procName' = r[1]
                /\ IF IsCriticalProcess(r[1])
                   THEN Finish(Result(FALSE, "Refusing to kill critical system process: "
                                             \o r[1], "critical system process"))
                   ELSE pc' = "Kill.open" /\ UNCHANGED result
    /\ UNCHANGED <<osVars, entries, entryPoint, kpid, expectedName, verName, calls>>
    /\ UNCHANGED restVars

\* Kill_NewProcess without the error check: the nil process is used and the call faults
Kill_NewProcess_Unchecked ==
    /\ pc = "Kill.open"
    /\ Exists(kpid)
    /\ pc' = "Kill.kill"
    /\ UNCHANGED result
    /\ UNCHANGED <<osVars, entries, entryPoint, kpid, expectedName, verName, procName,
                   nameErr, calls>>
    /\ UNCHANGED restVars

\* Kill: process.NewProcess(pid)
Kill_NewProcess ==
    /\ pc = "Kill.open"
    /\ IF ~Exists(kpid)
       THEN Finish(Result(FALSE, "Process " \o FormatInt(kpid)
                                 \o " not found (may have already terminated)", ErrNotExist))
       ELSE pc' = "Kill.kill" /\ UNCHANGED result
    /\ UNCHANGED <<osVars, entries, entryPoint, kpid, expectedName, verName, procName,
                   nameErr, calls>>
    /\ UNCHANGED restVars

\* Kill_pKill without the return on success: the graceful stop follows regardless
Kill_pKill_NoReturn ==
    /\ pc = "Kill.kill"
    /\ \E o \in Primitive(kpid, osKill) :
        /\ calls' = Append(calls, Invoked("Kill", kpid, o[1]))
        /\ procs' = o[2]
        /\ pc' = "Kill.terminate"
        /\ UNCHANGED result
    /\ UNCHANGED <<osKill, osTerm, entries, entryPoint, kpid, expectedName, verName,
                   procName, nameErr>>
    /\ UNCHANGED restVars

\* Kill_pKill asking for the graceful stop instead of the forced one
Kill_pKill_Graceful ==
    /\ pc = "Kill.kill"
    /\ \E o \in Primitive(kpid, osTerm) :
        /\ calls' = Append(calls, Invoked("Terminate", kpid, o[1]))
        /\ procs' = o[2]
        /\ IF o[1] # Nil
           THEN pc' = "Kill.terminate" /\ UNCHANGED result
           ELSE Finish(Result(TRUE, "Successfully killed process " \o FormatInt(kpid)
                                    \o " (" \o procName \o ")", Nil))
    /\ UNCHANGED <<osKill, osTerm, entries, entryPoint, kpid, expectedName, verName,
                   procName, nameErr>>
    /\ UNCHANGED restVars

\* Kill: p.Kill(), the forced stop, tried first
Kill_pKill ==
    /\ pc = "Kill.kill"
    /\ \E o \in Primitive(kpid, osKill) :
        /\ calls' = Append(calls, Invoked("Kill", kpid, o[1]))
        /\ procs' = o[2]
        /\ IF o[1] # Nil
           THEN pc' = "Kill.terminate" /\ UNCHANGED result
           ELSE Finish(Result(TRUE, "Successfully killed process " \o FormatInt(kpid)
                                    \o " (" \o procName \o ")", Nil))
    /\ UNCHANGED <<osKill, osTerm, entries, entryPoint, kpid, expectedName, verName,
                   procName, nameErr>>
    /\ UNCHANGED restVars

\* Kill: p.Terminate(), the graceful stop, tried when p.Kill() failed
Kill_pTerminate ==
    /\ pc = "Kill.terminate"
    /\ \E o \in Primitive(kpid, osTerm) :
        /\ calls' = Append(calls, Invoked("Terminate", kpid, o[1]))
        /\ procs' = o[2]
        /\ IF o[1] # Nil
           THEN Finish(handleError(o[1], kpid, procName))
           ELSE Finish(Result(TRUE, "Successfully killed process " \o FormatInt(kpid)
                                    \o " (" \o procName \o ")", Nil))
    /\ UNCHANGED <<osKill, osTerm, entries, entryPoint, kpid, expectedName, verName,
                   procName, nameErr>>
    /\ UNCHANGED restVars

\* the consumer calls KillWithName(pid, expected)
CallKillWithName(pid, expected) ==
    /\ pc = "idle"
    /\ pc' = "KillWithName.name"
    /\ entryPoint' = "KillWithName"
    /\ kpid' = pid
    /\ expectedName' = expected
    /\ osKill' \in BOOLEAN
    /\ osTerm' \in BOOLEAN
    /\ UNCHANGED <<procs, entries, verName, procName, nameErr, calls, result>>
    /\ UNCHANGED restVars

\* KillWithName_getProcessName comparing the names without regard to letter case
KillWithName_getProcessName_EqualFold ==
    /\ pc = "KillWithName.name"
    /\ \E r \in getProcessName(kpid) :
        /\ nameErr' = r[2]
        /\ IF r[2] # Nil
           THEN /\ Finish(Result(FALSE, "Failed to verify process: " \o r[2], r[2]))
                /\ UNCHANGED verName
           ELSE /\ verName' = r[1]
                /\ IF ToLower(r[1]) # ToLower(expectedName)
                   THEN Finish(Result(FALSE, "Process name mismatch: expected "
                                             \o expectedName \o ", got " \o r[1],
                                      "process name mismatch"))
                   ELSE pc' = "Kill.name" /\ UNCHANGED result
    /\ UNCHANGED <<osVars, entries, entryPoint, kpid, expectedName, procName, calls>>
    /\ UNCHANGED restVars

\* KillWithName: getProcessName, the name comparison, then the delegation to Kill
KillWithName_getProcessName ==
    /\ pc = "KillWithName.name"
    /\ \E r \in getProcessName(kpid) :
        /\ nameErr' = r[2]
        /\ IF r[2] # Nil
           THEN /\ Finish(Result(FALSE, "Failed to verify process: " \o r[2], r[2]))
                /\ UNCHANGED verName
           ELSE /\ verName' = r[1]
                /\ IF r[1] # expectedName
                   THEN Finish(Result(FALSE, "Process name mismatch: expected "
                                             \o expectedName \o ", got " \o r[1],
                                      "process name mismatch"))
                   ELSE pc' = "Kill.name" /\ UNCHANGED result
    /\ UNCHANGED <<osVars, entries, entryPoint, kpid, expectedName, procName, calls>>
    /\ UNCHANGED restVars

\* control enters ForceKill(pid)
EnterForceKill(pid) ==
    /\ pc' = "ForceKill.open"
    /\ entryPoint' = "ForceKill"
    /\ kpid' = pid
    /\ osKill' \in BOOLEAN
    /\ osTerm' = FALSE
    /\ UNCHANGED <<procs, expectedName, verName, procName, nameErr, calls, result>>

\* the consumer calls ForceKill(pid)
CallForceKill(pid) ==
    /\ pc = "idle"
    /\ EnterForceKill(pid)
    /\ UNCHANGED entries
    /\ UNCHANGED restVars

\* ForceKill_NewProcess refusing a critical process the way Kill does
ForceKill_NewProcess_Guarded ==
    /\ pc = "ForceKill.open"
    /\ IF ~Exists(kpid)
       THEN Finish(Result(FALSE, "Process " \o FormatInt(kpid) \o " not found", ErrNotExist))
       ELSE IF IsCriticalProcess(procs[kpid])
       THEN Finish(Result(FALSE, "Refusing to kill critical system process: " \o procs[kpid],
                          "critical system process"))
       ELSE pc' = "ForceKill.kill" /\ UNCHANGED result
    /\ UNCHANGED <<osVars, entries, entryPoint, kpid, expectedName, verName, procName,
                   nameErr, calls>>
    /\ UNCHANGED restVars

\* ForceKill: process.NewProcess(pid)
ForceKill_NewProcess ==
    /\ pc = "ForceKill.open"
    /\ IF ~Exists(kpid)
       THEN Finish(Result(FALSE, "Process " \o FormatInt(kpid) \o " not found", ErrNotExist))
       ELSE pc' = "ForceKill.kill" /\ UNCHANGED result
    /\ UNCHANGED <<osVars, entries, entryPoint, kpid, expectedName, verName, procName,
                   nameErr, calls>>
    /\ UNCHANGED restVars

\* ForceKill: p.Kill()
ForceKill_pKill ==
    /\ pc = "ForceKill.kill"
    /\ \E o \in Primitive(kpid, osKill) :
        /\ calls' = Append(calls, Invoked("Kill", kpid, o[1]))
        /\ procs' = o[2]
        /\ IF o[1] # Nil
           THEN Finish(Result(FALSE, "Failed to kill process: " \o o[1], o[1]))
           ELSE Finish(Result(TRUE, "Force killed process " \o FormatInt(kpid), Nil))
    /\ UNCHANGED <<osKill, osTerm, entries, entryPoint, kpid, expectedName, verName,
                   procName, nameErr>>
    /\ UNCHANGED restVars

\* control is back in the caller, which holds the Result
LeaveCall ==
    /\ pc' = "idle"
    /\ entryPoint' = "none"
    /\ kpid' = 0
    /\ expectedName' = NoName
    /\ verName' = NoName
    /\ procName' = NoName
    /\ nameErr' = Nil
    /\ calls' = <<>>
    /\ result' = NoResult
    /\ osKill' = FALSE
    /\ osTerm' = FALSE

\* the consumer has read the Result; the next call starts afresh
Return ==
    /\ pc = "done"
    /\ LeaveCall
    /\ UNCHANGED <<procs, entries>>
    /\ UNCHANGED restVars

-----------------------------------------------------------------------------
(* The rest of the machine: processes come and go, and a pid is reused.     *)
(* "done" is the instant a call returns its Result: the table moves again  *)
(* once the consumer holds it.                                             *)

ProcExit(pid) ==
    /\ pc # "done"
    /\ Exists(pid)
    /\ procs' = [procs EXCEPT ![pid] = NoProc]
    /\ UNCHANGED <<osKill, osTerm, entries>>
    /\ UNCHANGED callVars
    /\ UNCHANGED restVars

ProcStart(pid, name) ==
    /\ pc # "done"
    /\ ~Exists(pid)
    /\ procs' = [procs EXCEPT ![pid] = name]
    /\ UNCHANGED <<osKill, osTerm, entries>>
    /\ UNCHANGED callVars
    /\ UNCHANGED restVars

-----------------------------------------------------------------------------
(* internal/processes: Getter.GetProcessInfo *)

\* what the OS answers to one query: a value, or an error with whatever came along
Answer(ok, val) == [ok |-> ok, val |-> val]

NoArg == [pid |-> 0, found |-> FALSE, q |-> <<>>]

NoInfo == [err |-> "none"]

GetIdle ==
    /\ getArg = NoArg
    /\ getOut = NoInfo

\* GetProcessInfo where a failed p.Name() fails the whole call, as GetProcessName does
Getter_GetProcessInfo_NameFails(pid, found, q, clock) ==
    IF ~found \/ ~q.Name.ok
    THEN [err |-> ErrNotExist]
    ELSE LET createTime_ == IF q.CreateTime.ok THEN q.CreateTime.val ELSE 0
         IN  [err        |-> Nil,
              PID        |-> pid,
              Name       |-> q.Name.val,
              ExePath    |-> IF q.ExePath.ok THEN q.ExePath.val ELSE "",
              ParentPID  |-> IF q.ParentPID.ok THEN q.ParentPID.val ELSE 0,
              Uptime     |-> IF createTime_ > 0 THEN clock - (createTime_ \div 1000) ELSE 0,
              CreateTime |-> createTime_ \div 1000]

\* Getter.GetProcessInfo(pid) when process.NewProcess(pid) succeeds iff found, the
\* queries of p answer q and the clock reads `clock` seconds: the error, or the
\* ProcessInfo with each failed query replaced by its default
Getter_GetProcessInfo(pid, found, q, clock) ==
    IF ~found
    THEN [err |-> ErrNotExist]
    ELSE LET createTime_ == IF q.CreateTime.ok THEN q.CreateTime.val ELSE 0
         IN  [err        |-> Nil,
              PID        |-> pid,
              Name       |-> IF q.Name.ok THEN q.Name.val ELSE "unknown",
              ExePath    |-> IF q.ExePath.ok THEN q.ExePath.val ELSE "",
              ParentPID  |-> IF q.ParentPID.ok THEN q.ParentPID.val ELSE 0,
              Uptime     |-> IF createTime_ > 0 THEN clock - (createTime_ \div 1000) ELSE 0,
              CreateTime |-> createTime_ \div 1000]

\* g.GetProcessInfo(getArg.pid) is called
CallGetProcessInfo ==
    /\ getOut = NoInfo
    /\ getOut' = Getter_GetProcessInfo(getArg.pid, getArg.found, getArg.q, now)
    /\ UNCHANGED getArg
    /\ UNCHANGED <<killVars, clsVars, fltVars, scanVars, appVars>>

-----------------------------------------------------------------------------
(* internal/processes and internal/ports: the scan *)

\* the OS connection table (gopsutil net.Connections("all")); Type 1 is TCP, 2 is UDP
ConnTable ==
    << [Pid |-> 1, Type |-> 1, Status |-> "LISTEN",      Port |-> 8080],
       [Pid |-> 0, Type |-> 1, Status |-> "TIME_WAIT",   Port |-> 443],
       [Pid |-> 2, Type |-> 2, Status |-> "",            Port |-> 53],
       [Pid |-> 1, Type |-> 1, Status |-> "ESTABLISHED", Port |-> 8080],
       [Pid |-> 2, Type |-> 3, Status |-> "NONE",        Port |-> 0] >>

\* where the executable of a process called name lies, and the parent of every process
ExeOf(name) == "C:/" \o name

ParentOfAll == 4

\* what the OS of the state answers to the queries about pid
OsAnswers(pid, nameOk) ==
    [Name       |-> Answer(nameOk[pid], procs[pid]),
     ExePath    |-> Answer(TRUE, ExeOf(procs[pid])),
     ParentPID  |-> Answer(TRUE, ParentOfAll),
     CreateTime |-> Answer(createTime[pid] > 0, createTime[pid])]

\* GetProcessInfo against the OS of the state: NotFound for a pid nobody occupies,
\* else the attributes read, the name defaulting to "unknown" when its query fails
\* (nameOk[pid] = FALSE); Uptime is the clock minus the start second, and stays
\* zero without a start time
GetProcessInfo(pid, nameOk) ==
    IF pid \notin DOMAIN procs
    THEN [err |-> ErrNotExist]
    ELSE Getter_GetProcessInfo(pid, Exists(pid), OsAnswers(pid, nameOk), now)

\* pidCache := make(map[int32]*models.ProcessInfo)
EmptyCache == [p \in {} |-> Nil]

\* one invocation of the Resolver, as the call's history keeps it
Asked(pid, info) == <<[pid |-> pid, ok |-> info.err = Nil]>>

\* getProcessInfo without `cache[pid] = info`
getProcessInfo_NoStore(pid, cache, nameOk) ==
    IF pid \in DOMAIN cache THEN <<cache[pid], cache, <<>> >>
    ELSE LET info == GetProcessInfo(pid, nameOk)
         IN  <<info, cache, Asked(pid, info)>>

\* getProcessInfo: <<info, cache after, invocations of the Resolver>>; a failed
\* lookup is not cached
getProcessInfo(pid, cache, nameOk) ==
    IF pid \in DOMAIN cache THEN <<cache[pid], cache, <<>> >>
    ELSE LET info == GetProcessInfo(pid, nameOk)
         IN  IF info.err # Nil THEN <<info, cache, Asked(pid, info)>>
             ELSE <<info, [p \in DOMAIN cache \cup {pid} |->
                              IF p = pid THEN info ELSE cache[p]],
                    Asked(pid, info)>>

formatState(status) ==
    CASE status = "LISTEN" -> "LISTENING"
      [] OTHER -> status

\* containsState comparing with strings.EqualFold instead of ==
containsState_EqualFold(states, state) ==
    \E i \in 1..Len(states) : ToLower(states[i]) = ToLower(state)

containsState(states, state) == \E i \in 1..Len(states) : states[i] = state

protocolString(t) ==
    CASE t = 1 -> "TCP"
      [] t = 2 -> "UDP"
      [] OTHER -> "UNKNOWN"

\* the loop body without `continue` after a failed getProcessInfo
LoopBody_EmitUnresolved(conn, states, cache, acc, nameOk) ==
    LET state == formatState(conn.Status)
    IN  IF conn.Pid = 0 THEN <<cache, acc, <<>> >>
        ELSE IF conn.Type # 1 /\ conn.Type # 2 THEN <<cache, acc, <<>> >>
        ELSE IF Len(states) > 0 /\ ~containsState(states, state) THEN <<cache, acc, <<>> >>
        ELSE LET got  == getProcessInfo(conn.Pid, cache, nameOk)
                 name == IF got[1].err # Nil THEN "" ELSE got[1].Name
             IN  <<got[2],
                   Append(acc, [Protocol    |-> protocolString(conn.Type),
                                Port        |-> conn.Port,
                                PID         |-> conn.Pid,
                                ProcessName |-> name,
                                State       |-> state,
                                Uptime      |-> IF got[1].err # Nil THEN 0 ELSE got[1].Uptime,
                                IsSystem    |-> IsCriticalProcess(name)]),
                   got[3]>>

\* one iteration of the loop of GetConnections on connection conn:
\* <<pidCache after, entries after, invocations of the Resolver>>
LoopBody(conn, states, cache, acc, nameOk) ==
    LET state == formatState(conn.Status)
    IN  IF conn.Pid = 0 THEN <<cache, acc, <<>> >>
        ELSE IF conn.Type # 1 /\ conn.Type # 2 THEN <<cache, acc, <<>> >>
        ELSE IF Len(states) > 0 /\ ~containsState(states, state) THEN <<cache, acc, <<>> >>
        ELSE LET got == getProcessInfo(conn.Pid, cache, nameOk)
             IN  IF got[1].err # Nil
                 THEN <<got[2], acc, got[3]>>
                 ELSE <<got[2],
                        Append(acc, [Protocol    |-> protocolString(conn.Type),
                                     Port        |-> conn.Port,
                                     PID         |-> conn.Pid,
                                     ProcessName |-> got[1].Name,
                                     State       |-> state,
                                     Uptime      |-> got[1].Uptime,
                                     IsSystem    |-> IsCriticalProcess(got[1].Name)]),
                        got[3]>>

\* the loop of GetConnections from connection i on, with the call's pidCache
RECURSIVE ScanLoop(_, _, _, _, _, _)
ScanLoop(table, i, states, cache, acc, nameOk) ==
    IF i > Len(table) THEN acc
    ELSE LET step == LoopBody(table[i], states, cache, acc, nameOk)
         IN  ScanLoop(table, i + 1, states, step[1], step[2], nameOk)

\* GetConnections run in one piece on the connection table `table`
GetConnectionsOf(table, states, nameOk) ==
    ScanLoop(table, 1, states, EmptyCache, <<>>, nameOk)

GetConnections(states, nameOk) == GetConnectionsOf(ConnTable, states, nameOk)

\* the consumer scans without a state filter (GetEntriesByPort, GetConnections(nil))
Scan ==
    /\ pc = "idle"
    /\ \E nameOk \in [PIDs -> BOOLEAN] : entries' = GetConnections(<<>>, nameOk)
    /\ UNCHANGED osVars
    /\ UNCHANGED callVars
    /\ UNCHANGED restVars

-----------------------------------------------------------------------------
(* The consumers before they start *)

InitialModel ==
    [filtered |-> <<>>, selected |-> 0, filter |-> FilterCriteria("", "", ""),
     isLoading |-> TRUE, showHelp |-> FALSE, showKillConfirm |-> FALSE,
     showDetails |-> FALSE, searchMode |-> FALSE, searchQuery |-> "",
     errMsg |-> "", successMsg |-> "", page |-> 0, refreshing |-> FALSE]

\* no refresh command is past its refreshing test. kind is how far the command
\* is or the message it sent; sawKill tells that it scanned between a successful
\* kill and handleKillConfirm's return, stale that it scanned before a kill that
\* has since succeeded
NoMsg == [kind |-> "none", entries |-> <<>>, err |-> Nil, sawKill |-> FALSE, stale |-> FALSE]

\* no key event is being handled and no dialog is open. key is the key in lower
\* case, dialog whether the kill dialog was on screen, shown what it named, taken
\* the entry handleKillConfirm took, picked the entry 'k' opened the dialog on
NoEvent == [key |-> "", dialog |-> FALSE, shown |-> <<>>, taken |-> <<>>, picked |-> <<>>]

CliOff == [at |-> "off", port |-> 0, pids |-> {}, hasError |-> FALSE]

AppAtRest ==
    /\ app = "none"
    /\ m = InitialModel
    /\ cmds = 0
    /\ rmsg = NoMsg
    /\ run = "running"
    /\ cli = CliOff
    /\ event = NoEvent
    /\ owed = FALSE

-----------------------------------------------------------------------------
(* internal/ports: GetConnections step by step, two calls at a time *)

MaxChanges == 1

\* the calls to the Scanner that may be in progress at once
Scanners == {"first", "second"}

Other(s) == CHOOSE t \in Scanners : t # s

\* connection tables the OS may answer with; Status is whatever string the
\* platform reports, the code passes an unrecognised one through
TableA ==
    << [Pid |-> 1, Type |-> 1, Status |-> "LISTEN",      Port |-> 8080],
       [Pid |-> 0, Type |-> 1, Status |-> "TIME_WAIT",   Port |-> 443],
       [Pid |-> 2, Type |-> 1, Status |-> "ESTABLISHED", Port |-> 5432] >>

TableB ==
    << [Pid |-> 2, Type |-> 2, Status |-> "",            Port |-> 53],
       [Pid |-> 1, Type |-> 3, Status |-> "NONE",        Port |-> 0],
       [Pid |-> 2, Type |-> 1, Status |-> "established", Port |-> 3000] >>

ConnTables == {<<>>, TableA, TableB}

\* the pids the connection tables refer to
TablePids == {t[i].Pid : t \in ConnTables \ {<<>>}, i \in 1..3} \cap PIDs

ScanNames == {"node.exe", "lsass.exe"}

\* what the attribute queries of a live process answer: <<name readable, CreateTime in ms>>
AttrAnswers == {<<TRUE, 1000>>, <<FALSE, 1000>>, <<TRUE, 0>>}

\* GetListeningPorts and Refresh call GetConnections with this filter
ListenStates == <<"listen", "established">>

StateFilters == {<<>>, <<"LISTENING">>}

\* the Scanner methods that scan and then pick entries by an equality
Lookups == {"GetEntriesByPort", "GetEntriesByPID"}

\* GetEntriesByPID picking by port, as its sibling does
ByPIDLoop_ByPort(ents, i, pid, res) ==
    LET OnPort(en) == en.Port = pid
    IN  res \o SelectSeq(SubSeq(ents, i, Len(ents)), OnPort)

\* GetEntriesByPort: for i := range entries, from entry i on, res being `result`
RECURSIVE ByPortLoop(_, _, _, _)
ByPortLoop(ents, i, port, res) ==
    IF i > Len(ents) THEN res
    ELSE ByPortLoop(ents, i + 1, port,
                    IF ents[i].Port = port THEN Append(res, ents[i]) ELSE res)

\* GetEntriesByPID: for i := range entries, from entry i on, res being `result`
RECURSIVE ByPIDLoop(_, _, _, _)
ByPIDLoop(ents, i, pid, res) ==
    IF i > Len(ents) THEN res
    ELSE ByPIDLoop(ents, i + 1, pid,
                   IF ents[i].PID = pid THEN Append(res, ents[i]) ELSE res)

IdleScan ==
    [pc |-> "idle", api |-> "none", states |-> <<>>, table |-> <<>>, idx |-> 0,
     cache |-> EmptyCache, out |-> <<>>, asked |-> <<>>, err |-> Nil,
     stable |-> TRUE, after |-> FALSE, arg |-> 0, res |-> <<>>]

ScanAtRest ==
    /\ conns = <<>>
    /\ readable = [p \in PIDs |-> TRUE]
    /\ createTime = [p \in PIDs |-> 1000]
    /\ now = 1
    /\ changes = 0
    /\ scan = [s \in Scanners |-> IdleScan]

\* GetConnections appending to an entries slice that outlives the call
StartScan_KeepEntries(s, api, states) ==
    /\ scan[s].pc = "idle"
    /\ s = "second" => scan["first"].pc # "idle"
    /\ scan' = [scan EXCEPT ![s] =
                   [pc |-> "loop", api |-> api, states |-> states, table |-> conns,
                    idx |-> 1, cache |-> EmptyCache, out |-> scan[Other(s)].out,
                    asked |-> <<>>, err |-> Nil, stable |-> TRUE,
                    after |-> scan[Other(s)].pc = "done", arg |-> 0, res |-> <<>>]]
    /\ UNCHANGED <<conns, readable, createTime, now, changes>>
    /\ UNCHANGED <<killVars, clsVars, fltVars, getVars, appVars>>

\* conns, err := gopsutilnet.Connections("all") succeeded: the call holds its own
\* copy of the table, an empty pidCache and no entries
StartScan(s, api, states) ==
    /\ scan[s].pc = "idle"
    /\ s = "second" => scan["first"].pc # "idle"
    /\ scan' = [scan EXCEPT ![s] =
                   [pc |-> "loop", api |-> api, states |-> states, table |-> conns,
                    idx |-> 1, cache |-> EmptyCache, out |-> <<>>, asked |-> <<>>,
                    err |-> Nil, stable |-> TRUE, after |-> scan[Other(s)].pc = "done",
                    arg |-> 0, res |-> <<>>]]
    /\ UNCHANGED <<conns, readable, createTime, now, changes>>
    /\ UNCHANGED <<killVars, clsVars, fltVars, getVars, appVars>>

CallGetConnections(s, states) == StartScan(s, "GetConnections", states)

CallGetListeningPorts(s) == StartScan(s, "GetListeningPorts", ListenStates)

\* gopsutilnet.Connections("all") failed: the call returns the error and no entries
ConnectionsFails(s, states) ==
    /\ scan[s].pc = "idle"
    /\ s = "second" => scan["first"].pc # "idle"
    /\ scan' = [scan EXCEPT ![s] =
                   [IdleScan EXCEPT !.pc = "done", !.api = "GetConnections",
                                    !.states = states,
                                    !.err = "failed to get network connections",
                                    !.after = scan[Other(s)].pc = "done"]]
    /\ UNCHANGED <<conns, readable, createTime, now, changes>>
    /\ UNCHANGED <<killVars, clsVars, fltVars, getVars, appVars>>

\* the loop iteration with one pidCache kept in the Scanner and used by every call
GetConnections_Loop_SharedCache(s) ==
    /\ scan[s].pc = "loop"
    /\ scan[s].idx <= Len(scan[s].table)
    /\ LET mine   == scan[s].cache
           theirs == scan[Other(s)].cache
           shared == [p \in DOMAIN mine \cup DOMAIN theirs |->
                         IF p \in DOMAIN theirs THEN theirs[p] ELSE mine[p]]
           step   == LoopBody(scan[s].table[scan[s].idx], scan[s].states,
                              shared, scan[s].out, readable)
       IN  scan' = [scan EXCEPT ![s].idx = @ + 1, ![s].cache = step[1], ![s].out = step[2],
                                ![s].asked = @ \o step[3]]
    /\ UNCHANGED <<conns, readable, createTime, now, changes>>
    /\ UNCHANGED <<killVars, clsVars, fltVars, getVars, appVars>>

\* one iteration of `for _, conn := range conns`, against the process table of the moment
GetConnections_Loop(s) ==
    /\ scan[s].pc = "loop"
    /\ scan[s].idx <= Len(scan[s].table)
    /\ LET step == LoopBody(scan[s].table[scan[s].idx], scan[s].states,
                            scan[s].cache, scan[s].out, readable)
       IN  scan' = [scan EXCEPT ![s].idx = @ + 1, ![s].cache = step[1], ![s].out = step[2],
                                ![s].asked = @ \o step[3]]
    /\ UNCHANGED <<conns, readable, createTime, now, changes>>
    /\ UNCHANGED <<killVars, clsVars, fltVars, getVars, appVars>>

\* return entries, nil: to the consumer, or to the lookup that called
GetConnections_Return(s) ==
    /\ scan[s].pc = "loop"
    /\ scan[s].idx > Len(scan[s].table)
    /\ scan' = [scan EXCEPT ![s].pc = IF scan[s].api \in Lookups THEN "filter" ELSE "done"]
    /\ UNCHANGED <<conns, readable, createTime, now, changes>>
    /\ UNCHANGED <<killVars, clsVars, fltVars, getVars, appVars>>

\* GetEntriesByPort(port) and GetEntriesByPID(pid) begin with
\* entries, err := s.GetConnections(nil), which got the connection table
CallGetEntriesBy(s, api, arg) ==
    /\ scan[s].pc = "idle"
    /\ s = "second" => scan["first"].pc # "idle"
    /\ scan' = [scan EXCEPT ![s] =
                   [IdleScan EXCEPT !.pc = "loop", !.api = api, !.arg = arg,
                                    !.table = conns, !.idx = 1,
                                    !.after = scan[Other(s)].pc = "done"]]
    /\ UNCHANGED <<conns, readable, createTime, now, changes>>
    /\ UNCHANGED <<killVars, clsVars, fltVars, getVars, appVars>>

CallGetEntriesByPort(s, port) == CallGetEntriesBy(s, "GetEntriesByPort", port)

CallGetEntriesByPID(s, pid) == CallGetEntriesBy(s, "GetEntriesByPID", pid)

\* ... where GetConnections failed: if err != nil { return nil, err }
GetEntriesBy_Fails(s, api, arg) ==
    /\ scan[s].pc = "idle"
    /\ s = "second" => scan["first"].pc # "idle"
    /\ scan' = [scan EXCEPT ![s] =
                   [IdleScan EXCEPT !.pc = "done", !.api = api, !.arg = arg,
                                    !.err = "failed to get network connections",
                                    !.after = scan[Other(s)].pc = "done"]]
    /\ UNCHANGED <<conns, readable, createTime, now, changes>>
    /\ UNCHANGED <<killVars, clsVars, fltVars, getVars, appVars>>

\* the lookup's own loop over the entries GetConnections returned, and its return
GetEntriesBy_Return(s) ==
    /\ scan[s].pc = "filter"
    /\ scan' = [scan EXCEPT
                   ![s].pc = "done",
                   ![s].res = IF scan[s].api = "GetEntriesByPort"
                              THEN ByPortLoop(scan[s].out, 1, scan[s].arg, <<>>)
                              ELSE ByPIDLoop(scan[s].out, 1, scan[s].arg, <<>>)]
    /\ UNCHANGED <<conns, readable, createTime, now, changes>>
    /\ UNCHANGED <<killVars, clsVars, fltVars, getVars, appVars>>

\* the callers are through with their results
ScanRelease ==
    /\ \A s \in Scanners : scan[s].pc \in {"idle", "done"}
    /\ \E s \in Scanners : scan[s].pc = "done"
    /\ scan' = [s \in Scanners |-> IdleScan]
    /\ UNCHANGED <<conns, readable, createTime, now, changes>>
    /\ UNCHANGED <<killVars, clsVars, fltVars, getVars, appVars>>

\* a change of the OS state: no call in progress has seen a stable OS
Unsettled == [s \in Scanners |-> IF scan[s].pc = "idle" THEN scan[s]
                                 ELSE [scan[s] EXCEPT !.stable = FALSE]]

OsChange ==
    /\ changes < MaxChanges
    /\ changes' = changes + 1
    /\ scan' = Unsettled
    /\ UNCHANGED <<osKill, osTerm, entries, callVars, clsVars, fltVars, getVars, appVars>>

OsExit(pid) ==
    /\ Exists(pid)
    /\ OsChange
    /\ procs' = [procs EXCEPT ![pid] = NoProc]
    /\ readable' = [readable EXCEPT ![pid] = TRUE]
    /\ createTime' = [createTime EXCEPT ![pid] = 0]
    /\ UNCHANGED <<conns, now>>

OsStart(pid, name) ==
    /\ ~Exists(pid)
    /\ OsChange
    /\ procs' = [procs EXCEPT ![pid] = name]
    /\ \E a \in AttrAnswers :
          /\ readable' = [readable EXCEPT ![pid] = a[1]]
          /\ createTime' = [createTime EXCEPT ![pid] = IF a[2] = 0 THEN 0 ELSE now * 1000]
    /\ UNCHANGED <<conns, now>>

\* a process exits and another process is given its pid
OsReuse(pid, name) ==
    /\ Exists(pid)
    /\ name # procs[pid]
    /\ OsChange
    /\ procs' = [procs EXCEPT ![pid] = name]
    /\ readable' = [readable EXCEPT ![pid] = TRUE]
    /\ createTime' = [createTime EXCEPT ![pid] = now * 1000]
    /\ UNCHANGED <<conns, now>>

OsTick ==
    /\ OsChange
    /\ now' = now + 1
    /\ UNCHANGED <<procs, conns, readable, createTime>>

OsConnections(table) ==
    /\ table # conns
    /\ OsChange
    /\ conns' = table
    /\ UNCHANGED <<procs, readable, createTime, now>>

InitScan ==
    /\ conns \in ConnTables
    /\ procs \in [PIDs -> ScanNames \cup {NoProc}]
    /\ \A p \in PIDs \ TablePids : procs[p] = NoProc
    /\ readable \in [PIDs -> BOOLEAN]
    /\ createTime \in [PIDs -> {0, 1000}]
    /\ \A p \in PIDs :
          IF procs[p] = NoProc THEN readable[p] /\ createTime[p] = 0
          ELSE <<readable[p], createTime[p]>> \in AttrAnswers
    /\ now = 1
    /\ changes = 0
    /\ scan = [s \in Scanners |-> IdleScan]
    /\ osKill = FALSE
    /\ osTerm = FALSE
    /\ entries = <<>>
    /\ pc = "idle"
    /\ entryPoint = "none"
    /\ kpid = 0
    /\ expectedName = NoName
    /\ verName = NoName
    /\ procName = NoName
    /\ nameErr = Nil
    /\ calls = <<>>
    /\ result = NoResult
    /\ clsName = ""
    /\ clsOut = "none"
    /\ FltIdle
    /\ GetIdle
    /\ AppAtRest

NextScan ==
    \/ \E s \in Scanners, states \in StateFilters : CallGetConnections(s, states)
    \/ \E s \in Scanners : CallGetListeningPorts(s)
    \/ \E s \in Scanners, states \in StateFilters : ConnectionsFails(s, states)
    \/ \E s \in Scanners : GetConnections_Loop(s)
    \/ \E s \in Scanners : GetConnections_Return(s)
    \/ ScanRelease
    \/ \E pid \in TablePids : OsExit(pid)
    \/ \E pid \in TablePids, name \in ScanNames : OsStart(pid, name)
    \/ OsTick
    \/ \E table \in ConnTables : OsConnections(table)

SpecScan == InitScan /\ [][NextScan]_vars

-----------------------------------------------------------------------------
(* internal/tui and cmd: the consumers of Scanner and Killer *)

\* m.pageSize, 20 in InitialModel; scaled down so that short lists have a second page
PageSize == 2

\* longest search query typed
MaxQuery == 1

\* most refresh commands waiting to run
MaxCmds == 1

\* the connection table of the consumer runs; the lowercase statuses are ones
\* the filter of GetListeningPorts lets through
TableT ==
    << [Pid |-> 1, Type |-> 1, Status |-> "listen",      Port |-> 8080],
       [Pid |-> 1, Type |-> 1, Status |-> "established", Port |-> 3000],
       [Pid |-> 2, Type |-> 1, Status |-> "established", Port |-> 8080] >>

\* the characters typed into the search line (a digit: the query is a port)
SearchChars == {"8"}

\* tea.KeyMsg.String() of the keys pressed
Keys == {"k", "y", "Y", "n", "N", "esc", "enter", "r", "/", "h", "8", "up", "down",
         "pgup", "pgdown", "backspace", "ctrl+c"}

\* fmt.Sscanf(port, "%d", &p): the value of the leading run of digits, -1 without one
RECURSIVE LeadingInt(_, _, _)
LeadingInt(str, i, acc) ==
    IF i > Len(str) THEN acc
    ELSE LET d == CHOOSE n \in 0..10 : n = 10 \/ SubSeq(Digits, n + 1, n + 1) = SubSeq(str, i, i)
         IN  IF d = 10 THEN acc
             ELSE LeadingInt(str, i + 1, (IF acc < 0 THEN 0 ELSE acc) * 10 + d)

IsValidPort(port) ==
    LET p == LeadingInt(port, 1, -1)
    IN  p >= 0 /\ p <= 65535

getCurrentPageEntries(mm) ==
    LET start == mm.page * PageSize
        end   == IF start + PageSize > Len(mm.filtered) THEN Len(mm.filtered)
                 ELSE start + PageSize
    IN  IF start >= Len(mm.filtered) THEN <<>>
        ELSE SubSeq(mm.filtered, start + 1, end)

totalPages(mm) ==
    IF Len(mm.filtered) = 0 THEN 1
    ELSE (Len(mm.filtered) + PageSize - 1) \div PageSize

nextPage(mm) ==
    IF mm.page < totalPages(mm) - 1
    THEN [mm EXCEPT !.page = @ + 1, !.selected = 0]
    ELSE mm

prevPage(mm) ==
    IF mm.page > 0
    THEN [mm EXCEPT !.page = @ - 1, !.selected = 0]
    ELSE mm

applyFilter(mm, ents) ==
    LET Keep(e) == Matches(mm.filter, e)
    IN  [mm EXCEPT !.filtered = IF IsEmpty(mm.filter) THEN ents ELSE SelectSeq(ents, Keep),
                   !.page = 0,
                   !.selected = 0]

applyFilterFromSearch(mm, ents) ==
    applyFilter([mm EXCEPT !.filter =
                    IF mm.searchQuery = "" THEN FilterCriteria("", "", "")
                    ELSE IF IsValidPort(mm.searchQuery)
                         THEN FilterCriteria(mm.searchQuery, "", "")
                         ELSE FilterCriteria("", mm.searchQuery, "")],
                ents)

handleSearchInput(mm, ents, key) ==
    CASE key = "esc" ->
            applyFilter([mm EXCEPT !.searchMode = FALSE, !.searchQuery = "",
                                   !.filter = FilterCriteria("", "", "")], ents)
      [] key = "enter" ->
            [mm EXCEPT !.searchMode = FALSE, !.selected = 0]
      [] key = "backspace" ->
            applyFilterFromSearch(
                [mm EXCEPT !.searchQuery =
                    IF Len(@) > 0 THEN SubSeq(@, 1, Len(@) - 1) ELSE @], ents)
      [] OTHER ->
            IF Len(key) = 1
            THEN applyFilterFromSearch([mm EXCEPT !.searchQuery = @ \o key], ents)
            ELSE mm

handleKill(mm) ==
    IF Len(getCurrentPageEntries(mm)) = 0 \/ mm.selected >= Len(getCurrentPageEntries(mm))
    THEN [mm EXCEPT !.errMsg = "No process selected"]
    ELSE [mm EXCEPT !.showKillConfirm = TRUE]

\* handleKillConfirm whose cancel keys fall through to the kill
handleKillConfirm_CancelKills(mm, key) ==
    CASE key \in {"y", "Y", "n", "N", "esc"} ->
            [m    |-> [mm EXCEPT !.showKillConfirm = FALSE],
             kill |-> mm.selected < Len(getCurrentPageEntries(mm))]
      [] OTHER ->
            [m |-> mm, kill |-> FALSE]

\* handleKillConfirm up to its call of Kill: the Model, and whether Kill is called
handleKillConfirm(mm, key) ==
    CASE key \in {"y", "Y"} ->
            [m    |-> [mm EXCEPT !.showKillConfirm = FALSE],
             kill |-> mm.selected < Len(getCurrentPageEntries(mm))]
      [] key \in {"n", "N", "esc"} ->
            [m |-> [mm EXCEPT !.showKillConfirm = FALSE], kill |-> FALSE]
      [] OTHER ->
            [m |-> mm, kill |-> FALSE]

\* the switch of handleKeyPress when no overlay and no search is active:
\* the Model and the command returned (selectedEntry, which only renderDetails
\* reads, is not kept)
handleNormalKey(mm, ents, key) ==
    CASE key = "ctrl+c" -> [m |-> mm, cmd |-> "quit"]
      [] key = "k" -> [m |-> handleKill(mm), cmd |-> "none"]
      [] key = "r" -> [m |-> mm, cmd |-> "refresh"]
      [] key = "/" -> [m |-> [mm EXCEPT !.searchMode = TRUE, !.searchQuery = ""],
                       cmd |-> "none"]
      [] key = "h" -> [m |-> [mm EXCEPT !.showHelp = TRUE], cmd |-> "none"]
      [] key = "up" ->
            [m |-> IF mm.selected > 0 THEN [mm EXCEPT !.selected = @ - 1] ELSE mm,
             cmd |-> "none"]
      [] key = "down" ->
            [m |-> IF mm.selected < Len(getCurrentPageEntries(mm)) - 1
                   THEN [mm EXCEPT !.selected = @ + 1] ELSE mm,
             cmd |-> "none"]
      [] key = "pgup" -> [m |-> prevPage(mm), cmd |-> "none"]
      [] key = "pgdown" -> [m |-> nextPage(mm), cmd |-> "none"]
      [] key = "enter" ->
            [m |-> IF Len(getCurrentPageEntries(mm)) > 0
                      /\ mm.selected < Len(getCurrentPageEntries(mm))
                   THEN [mm EXCEPT !.showDetails = TRUE]
                   ELSE mm,
             cmd |-> "none"]
      [] key = "esc" ->
            [m |-> IF ~IsEmpty(mm.filter)
                   THEN [applyFilter([mm EXCEPT !.filter = FilterCriteria("", "", "")], ents)
                            EXCEPT !.selected = 0]
                   ELSE mm,
             cmd |-> "none"]
      [] OTHER -> [m |-> mm, cmd |-> "none"]

\* View shows the messages on the plain table only, and clears them once shown
View(mm) ==
    IF mm.isLoading \/ mm.showHelp \/ mm.showKillConfirm \/ mm.showDetails THEN mm
    ELSE [mm EXCEPT !.errMsg = "", !.successMsg = ""]

\* renderKillConfirm indexes m.filtered[m.selected]
ViewPanics(mm) ==
    /\ ~mm.isLoading /\ ~mm.showHelp /\ mm.showKillConfirm
    /\ mm.selected >= Len(mm.filtered)

\* renderKillConfirm: the process the dialog names
renderKillConfirm(mm) ==
    LET entry == mm.filtered[mm.selected + 1]
    IN  [ProcessName |-> entry.ProcessName, PID |-> entry.PID, IsSystem |-> entry.IsSystem]

\* Update has returned the Model mm: the runtime renders it
Render(mm) ==
    IF ViewPanics(mm) THEN m' = mm /\ run' = "panic"
    ELSE m' = View(mm) /\ run' = run

\* the kill confirmation dialog is on screen
DialogShowing == ~m.isLoading /\ ~m.showHelp /\ m.showKillConfirm

UpdateReady == app = "tui" /\ run = "running" /\ pc = "idle"

\* result := m.kill.Kill(entry.PID)
TuiKill(pid) == EnterKill(pid)

\* a key arrives while the search line is open
KeyInSearch(key) ==
    /\ UpdateReady
    /\ m.searchMode
    /\ Len(key) = 1 => key \in SearchChars /\ Len(m.searchQuery) < MaxQuery
    /\ Render(handleSearchInput(m, entries, key))
    /\ UNCHANGED <<cmds, rmsg, app, owed, cli, event>>
    /\ UNCHANGED <<killVars, clsVars, fltVars, getVars, scanVars>>

\* any key closes the help overlay
KeyInHelp(key) ==
    /\ UpdateReady
    /\ ~m.searchMode /\ m.showHelp
    /\ Render([m EXCEPT !.showHelp = FALSE])
    /\ UNCHANGED <<cmds, rmsg, app, owed, cli, event>>
    /\ UNCHANGED <<killVars, clsVars, fltVars, getVars, scanVars>>

\* a key arrives while showKillConfirm is set: handleKillConfirm; on 'y' with a
\* selection it is inside Kill when this step ends
KeyInKillConfirm(key) ==
    /\ UpdateReady
    /\ ~m.searchMode /\ ~m.showHelp /\ m.showKillConfirm
    /\ LET h == handleKillConfirm(m, key)
       IN  IF h.kill
           THEN /\ cmds < MaxCmds
                /\ TuiKill(getCurrentPageEntries(m)[m.selected + 1].PID)
                /\ m' = h.m
                /\ event' = [event EXCEPT
                                !.key = ToLower(key),
                                !.dialog = DialogShowing,
                                !.shown = IF DialogShowing THEN <<renderKillConfirm(m)>>
                                          ELSE <<>>,
                                !.taken = <<getCurrentPageEntries(m)[m.selected + 1]>>]
                /\ UNCHANGED run
           ELSE /\ Render(h.m)
                /\ event' = IF h.m.showKillConfirm THEN event ELSE NoEvent
                /\ UNCHANGED <<osVars, callVars>>
    /\ UNCHANGED <<entries, cmds, rmsg, app, owed, cli>>
    /\ UNCHANGED <<clsVars, fltVars, getVars, scanVars>>

\* Kill has returned to handleKillConfirm: the message is set, a successful
\* kill returns the refresh command
KillConfirm_Return ==
    /\ app = "tui" /\ run = "running"
    /\ pc = "done"
    /\ IF result.Success
       THEN /\ Render([m EXCEPT !.successMsg = result.Message])
            /\ cmds' = cmds + 1
            /\ owed' = TRUE
            /\ rmsg' = IF rmsg.kind \in {"refreshResult", "refreshError"}
                       THEN [rmsg EXCEPT !.stale = ~rmsg.sawKill]
                       ELSE rmsg
       ELSE /\ Render([m EXCEPT !.errMsg = result.Message])
            /\ UNCHANGED <<cmds, owed, rmsg>>
    /\ LeaveCall
    /\ event' = NoEvent
    /\ UNCHANGED <<procs, entries, app, cli>>
    /\ UNCHANGED <<clsVars, fltVars, getVars, scanVars>>

\* a key arrives while the details overlay is open
KeyInDetails(key) ==
    /\ UpdateReady
    /\ ~m.searchMode /\ ~m.showHelp /\ ~m.showKillConfirm /\ m.showDetails
    /\ Render(IF key \in {"esc", "enter"} THEN [m EXCEPT !.showDetails = FALSE] ELSE m)
    /\ UNCHANGED <<cmds, rmsg, app, owed, cli, event>>
    /\ UNCHANGED <<killVars, clsVars, fltVars, getVars, scanVars>>

\* a key arrives on the plain table
KeyNormal(key) ==
    /\ UpdateReady
    /\ ~m.searchMode /\ ~m.showHelp /\ ~m.showKillConfirm /\ ~m.showDetails
    /\ LET h == handleNormalKey(m, entries, key)
       IN  CASE h.cmd = "quit" ->
                  /\ run' = "quit"
                  /\ UNCHANGED <<m, cmds>>
             [] h.cmd = "refresh" ->
                  /\ cmds < MaxCmds
                  /\ cmds' = cmds + 1
                  /\ Render(h.m)
             [] OTHER ->
                  /\ Render(h.m)
                  /\ UNCHANGED cmds
    /\ event' = IF key = "k" /\ handleKill(m).showKillConfirm
                THEN [NoEvent EXCEPT !.picked = <<getCurrentPageEntries(m)[m.selected + 1]>>]
                ELSE event
    /\ UNCHANGED <<rmsg, app, owed, cli>>
    /\ UNCHANGED <<killVars, clsVars, fltVars, getVars, scanVars>>

\* the key event `key` is handled, whatever is on screen
KeyPress(key) ==
    \/ KeyInSearch(key)
    \/ KeyInHelp(key)
    \/ KeyInKillConfirm(key)
    \/ KeyInDetails(key)
    \/ KeyNormal(key)

\* a refresh command that does not look at m.refreshing
RefreshCmd_Run_Unguarded ==
    /\ app = "tui" /\ run = "running"
    /\ cmds > 0
    /\ cmds' = cmds - 1
    /\ m' = [m EXCEPT !.refreshing = TRUE]
    /\ rmsg' = [NoMsg EXCEPT !.kind = "scanning"]
    /\ UNCHANGED <<run, app, owed, cli, event>>
    /\ UNCHANGED <<killVars, clsVars, fltVars, getVars, scanVars>>

\* a refresh command runs: it returns nil when a refresh is under way, else it
\* sets the flag and goes on to scan
RefreshCmd_Run ==
    /\ app = "tui" /\ run = "running"
    /\ cmds > 0
    /\ cmds' = cmds - 1
    /\ IF m.refreshing
       THEN UNCHANGED <<m, rmsg>>
       ELSE /\ m' = [m EXCEPT !.refreshing = TRUE]
            /\ rmsg' = [NoMsg EXCEPT !.kind = "scanning"]
    /\ UNCHANGED <<run, app, owed, cli, event>>
    /\ UNCHANGED <<killVars, clsVars, fltVars, getVars, scanVars>>

\* entries, err := m.scanner.GetListeningPorts()
RefreshCmd_Scan ==
    /\ app = "tui" /\ run = "running"
    /\ rmsg.kind = "scanning"
    /\ \/ rmsg' = [kind |-> "refreshError", entries |-> <<>>,
                   err |-> "failed to get network connections",
                   sawKill |-> pc = "done" /\ result.Success, stale |-> FALSE]
       \/ rmsg' = [kind |-> "refreshResult",
                   entries |-> GetConnectionsOf(conns, ListenStates, readable),
                   err |-> Nil,
                   sawKill |-> pc = "done" /\ result.Success, stale |-> FALSE]
    /\ UNCHANGED <<m, cmds, run, app, owed, cli, event>>
    /\ UNCHANGED <<killVars, clsVars, fltVars, getVars, scanVars>>

\* Update(refreshResult) that stores the entries and leaves m.filtered alone
Update_refreshResult_KeepFiltered ==
    /\ UpdateReady
    /\ rmsg.kind = "refreshResult"
    /\ entries' = rmsg.entries
    /\ Render([m EXCEPT !.isLoading = FALSE, !.refreshing = FALSE])
    /\ rmsg' = NoMsg
    /\ owed' = (owed /\ rmsg.stale)
    /\ UNCHANGED <<cmds, app, cli, event>>
    /\ UNCHANGED <<osVars, callVars, clsVars, fltVars, getVars, scanVars>>

\* Update(refreshResult)
Update_refreshResult ==
    /\ UpdateReady
    /\ rmsg.kind = "refreshResult"
    /\ entries' = rmsg.entries
    /\ Render([applyFilter(m, rmsg.entries) EXCEPT !.isLoading = FALSE,
                                                   !.refreshing = FALSE])
    /\ rmsg' = NoMsg
    /\ owed' = (owed /\ rmsg.stale)
    /\ UNCHANGED <<cmds, app, cli, event>>
    /\ UNCHANGED <<osVars, callVars, clsVars, fltVars, getVars, scanVars>>

\* Update(refreshError)
Update_refreshError ==
    /\ UpdateReady
    /\ rmsg.kind = "refreshError"
    /\ Render([m EXCEPT !.errMsg = rmsg.err, !.isLoading = FALSE, !.refreshing = FALSE])
    /\ rmsg' = NoMsg
    /\ owed' = (owed /\ rmsg.stale)
    /\ UNCHANGED <<cmds, app, cli, event>>
    /\ UNCHANGED <<killVars, clsVars, fltVars, getVars, scanVars>>

\* result := k.Kill(pid)
CliKill(pid) == EnterKill(pid)

\* GetEntriesByPort: the entries of an unfiltered scan that have that port
GetEntriesByPort(port) ==
    ByPortLoop(GetConnectionsOf(conns, <<>>, readable), 1, port, <<>>)

\* portexec kill <port>: killByPort up to its loop; it ends at once when the scan
\* fails or finds nothing on the port
CLI_killByPort(port) ==
    /\ app = "cli" /\ cli.at = "start"
    /\ \/ /\ entries' = GetEntriesByPort(port)
          /\ cli' = IF entries' = <<>>
                    THEN [at |-> "exit", port |-> port, pids |-> {}, hasError |-> TRUE]
                    ELSE [at |-> "loop", port |-> port,
                          pids |-> {entries'[i].PID : i \in 1..Len(entries')},
                          hasError |-> FALSE]
       \/ /\ cli' = [at |-> "exit", port |-> port, pids |-> {}, hasError |-> TRUE]
          /\ UNCHANGED entries
    /\ UNCHANGED <<app, owed, m, cmds, rmsg, run, event>>
    /\ UNCHANGED <<osVars, callVars, clsVars, fltVars, getVars, scanVars>>

\* for pid, entry := range pidMap: the next pid, in the map's order
CLI_Kill(pid) ==
    /\ app = "cli" /\ cli.at = "loop"
    /\ pc = "idle"
    /\ pid \in cli.pids
    /\ CliKill(pid)
    /\ cli' = [cli EXCEPT !.pids = @ \ {pid}]
    /\ UNCHANGED <<entries, app, owed, m, cmds, rmsg, run, event>>
    /\ UNCHANGED <<clsVars, fltVars, getVars, scanVars>>

CLI_KillReturn ==
    /\ app = "cli" /\ cli.at = "loop"
    /\ pc = "done"
    /\ cli' = [cli EXCEPT !.hasError = @ \/ ~result.Success]
    /\ LeaveCall
    /\ UNCHANGED <<procs, entries, app, owed, m, cmds, rmsg, run, event>>
    /\ UNCHANGED <<clsVars, fltVars, getVars, scanVars>>

\* the loop is over and the command exits
CLI_Exit ==
    /\ app = "cli" /\ cli.at = "loop"
    /\ pc = "idle"
    /\ cli.pids = {}
    /\ cli' = [cli EXCEPT !.at = "exit"]
    /\ UNCHANGED <<app, owed, m, cmds, rmsg, run, event>>
    /\ UNCHANGED <<killVars, clsVars, fltVars, getVars, scanVars>>

\* the user runs the command again
CLI_Again ==
    /\ app = "cli" /\ cli.at = "exit"
    /\ cli' = [CliOff EXCEPT !.at = "start"]
    /\ entries' = <<>>
    /\ UNCHANGED <<app, owed, m, cmds, rmsg, run, event>>
    /\ UNCHANGED <<osVars, callVars, clsVars, fltVars, getVars, scanVars>>

CliPorts == {8080, 3000, 443}

AppPids == {TableT[i].Pid : i \in 1..Len(TableT)} \cap PIDs

InitApp ==
    /\ app \in {"tui", "cli"}
    /\ m = InitialModel
    /\ cmds = IF app = "tui" THEN 1 ELSE 0
    /\ rmsg = NoMsg
    /\ run = "running"
    /\ cli = IF app = "cli" THEN [CliOff EXCEPT !.at = "start"] ELSE CliOff
    /\ event = NoEvent
    /\ owed = FALSE
    /\ conns = TableT
    /\ procs = [p \in PIDs |-> CASE p = 1 -> "node.exe"
                                   [] p = 2 -> "lsass.exe"
                                   [] OTHER -> NoProc]
    /\ readable = [p \in PIDs |-> TRUE]
    /\ createTime = [p \in PIDs |-> IF procs[p] = NoProc THEN 0 ELSE 1000]
    /\ now = 1
    /\ changes = 0
    /\ scan = [s \in Scanners |-> IdleScan]
    /\ osKill = FALSE
    /\ osTerm = FALSE
    /\ entries = <<>>
    /\ pc = "idle"
    /\ entryPoint = "none"
    /\ kpid = 0
    /\ expectedName = NoName
    /\ verName = NoName
    /\ procName = NoName
    /\ nameErr = Nil
    /\ calls = <<>>
    /\ result = NoResult
    /\ clsName = ""
    /\ clsOut = "none"
    /\ FltIdle
    /\ GetIdle

NextApp ==
    \/ \E key \in Keys : KeyInSearch(key)
    \/ \E key \in Keys : KeyInHelp(key)
    \/ \E key \in Keys : KeyInKillConfirm(key)
    \/ \E key \in Keys : KeyInDetails(key)
    \/ \E key \in Keys : KeyNormal(key)
    \/ KillConfirm_Return
    \/ RefreshCmd_Run
    \/ RefreshCmd_Scan
    \/ Update_refreshResult
    \/ Update_refreshError
    \/ \E port \in CliPorts : CLI_killByPort(port)
    \/ \E pid \in AppPids : CLI_Kill(pid)
    \/ CLI_KillReturn
    \/ CLI_Exit
    \/ CLI_Again
    \/ Kill_getProcessName
    \/ Kill_NewProcess
    \/ Kill_pKill
    \/ Kill_pTerminate
    \/ \E pid \in AppPids : OsExit(pid)
    \/ \E pid \in AppPids, name \in ScanNames : OsReuse(pid, name)

SpecApp == InitApp /\ [][NextApp]_vars

-----------------------------------------------------------------------------
(* The specification of the kill protocol *)

Init ==
    /\ procs \in [PIDs -> ProcNames \cup {NoProc}]
    /\ osKill = FALSE
    /\ osTerm = FALSE
    /\ entries = <<>>
    /\ pc = "idle"
    /\ entryPoint = "none"
    /\ kpid = 0
    /\ expectedName = NoName
    /\ verName = NoName
    /\ procName = NoName
    /\ nameErr = Nil
    /\ calls = <<>>
    /\ result = NoResult
    /\ clsName = ""
    /\ clsOut = "none"
    /\ FltIdle
    /\ GetIdle
    /\ ScanAtRest
    /\ AppAtRest

Next ==
    \/ \E pid \in PIDs : CallKill(pid)
    \/ Kill_getProcessName
    \/ Kill_NewProcess
    \/ Kill_pKill
    \/ Kill_pTerminate
    \/ \E pid \in PIDs, expected \in ExpectedNames : CallKillWithName(pid, expected)
    \/ KillWithName_getProcessName
    \/ \E pid \in PIDs : CallForceKill(pid)
    \/ ForceKill_NewProcess
    \/ ForceKill_pKill
    \/ Return
    \/ Scan
    \/ \E pid \in PIDs : ProcExit(pid)
    \/ \E pid \in PIDs, name \in ProcNames : ProcStart(pid, name)

Spec == Init /\ [][Next]_vars

-----------------------------------------------------------------------------
(* The guarded kill: properties *)

\* the running call is Kill, called directly or by KillWithName's delegation
InKill == entryPoint \in {"Kill", "KillWithName"}

Resolved == procName # NoName

\* the names, among those a call can resolve, that IsCriticalProcess classifies critical
CriticalNames == {n \in ProcNames \cup {""} : IsCriticalProcess(n)}

Critical(name) == name \in CriticalNames

\* the last scan listed the call's pid as not protected
ScannedUnprotected ==
    \E i \in 1..Len(entries) : entries[i].PID = kpid /\ ~entries[i].IsSystem

BothFailed == Len(calls) = 2 /\ ~calls[1].ok /\ ~calls[2].ok

\* permission-denial phrasing, in any letter case
IsDenial(err) ==
    \/ StringsContains(ToLower(err), "access is denied")
    \/ StringsContains(ToLower(err), "operation not permitted")

AdvisesElevation(message) == StringsContains(message, "Run as Administrator")

\* C1: a Kill whose resolved name is classified critical returns a failed Result
\* at once, and no termination primitive is invoked during the call.
C1_CriticalRefused ==
    (InKill /\ Resolved /\ Critical(procName))
        => (pc = "done" /\ ~result.Success /\ calls = <<>>)

C1_Witness ==
    /\ pc = "done" /\ entryPoint = "Kill" /\ procName = "lsass.exe"
    /\ ~result.Success /\ calls = <<>>

\* C2: a pid the scan listed as not protected and that a critical process now
\* occupies is refused by Kill all the same: the decision rests on the name that
\* Kill resolves itself, not on the scan-time flag.
C2_ScanFlagNotTrusted ==
    (InKill /\ ScannedUnprotected /\ Resolved /\ Critical(procName))
        => (pc = "done" /\ ~result.Success /\ calls = <<>>)

C2_Witness ==
    /\ pc = "done" /\ entryPoint = "Kill" /\ ScannedUnprotected
    /\ \E i \in 1..Len(entries) : entries[i].PID = kpid /\ entries[i].ProcessName = "node.exe"
    /\ procName = "SvcHost-net"
    /\ ~result.Success /\ calls = <<>>

C4_ForcedSucceeds ==
    (/\ pc = "done" /\ entryPoint = "Kill"
     /\ Resolved /\ ~Critical(procName)
     /\ calls # <<>> /\ \A i \in 1..Len(calls) : calls[i].target # NoProc
     /\ osKill /\ ~osTerm)
        => (result.Success /\ result.Error = Nil)

C4_Witness ==
    /\ pc = "done" /\ entryPoint = "Kill" /\ procName = "node.exe"
    /\ osKill /\ ~osTerm /\ calls # <<>> /\ calls[1].target = "node.exe"
    /\ result.Success

\* C5: when Kill cannot resolve the name (no such process, or the name cannot be
\* read) it returns at once a failed Result carrying the resolution error, and no
\* termination primitive is invoked.
C5_ResolutionFailure ==
    (entryPoint = "Kill" /\ nameErr # Nil)
        => (pc = "done" /\ ~result.Success /\ result.Error = nameErr /\ calls = <<>>)

C5_Witness ==
    /\ pc = "done" /\ entryPoint = "Kill" /\ nameErr = ErrName
    /\ Exists(kpid) /\ ~result.Success /\ result.Error = ErrName

\* C6: when the name KillWithName resolves differs in any way from expectedName,
\* it returns a failed Result at once and no termination primitive is invoked.
C6_MismatchRefused ==
    (entryPoint = "KillWithName" /\ verName # NoName /\ verName # expectedName)
        => (pc = "done" /\ ~result.Success /\ calls = <<>>)

C6_Witness ==
    /\ pc = "done" /\ entryPoint = "KillWithName"
    /\ verName = "node.exe" /\ expectedName = "NODE.EXE"
    /\ ~result.Success /\ calls = <<>>

\* C7 as claimed: when both attempts of Kill fail and the final error contains
\* "access is denied" or "operation not permitted" in any letter case, the
\* Result's message advises privilege elevation.
C7_DenialAdvisesElevation ==
    (pc = "done" /\ InKill /\ BothFailed /\ IsDenial(result.Error))
        => AdvisesElevation(result.Message)

\* C8: when both attempts of Kill fail the Result is failed whatever the error
\* says, and for an error that is not permission-denial phrasing the message
\* embeds the raw error text.
C8_GenericFailure ==
    (pc = "done" /\ InKill /\ BothFailed)
        => /\ ~result.Success
           /\ ~IsDenial(result.Error) => StringsContains(result.Message, result.Error)

C8_Witness ==
    /\ pc = "done" /\ entryPoint = "Kill" /\ BothFailed
    /\ result.Error = "invalid argument"
    /\ StringsContains(result.Message, "invalid argument")
    /\ ~result.Success

\* the steps of a running Kill or KillWithName
KillStep ==
    \/ Kill_getProcessName
    \/ Kill_NewProcess
    \/ Kill_pKill
    \/ Kill_pTerminate
    \/ KillWithName_getProcessName

\* the last thing the call did found nobody at the pid
GoneAtLastStep ==
    \/ nameErr = ErrNotExist
    \/ result.Error = ErrNotExist
    \/ (calls # <<>> /\ calls[Len(calls)].target = NoProc)

\* C16: wherever the target exits during Kill (before the name is resolved, before
\* the process handle is obtained, before or between the termination attempts), the
\* call always has a next step and ends in a failed Result that reports the missing
\* process; it never faults.
C16_ExitTolerated ==
    InKill =>
        /\ pc \notin {"idle", "done"} => ENABLED KillStep
        /\ (pc = "done" /\ GoneAtLastStep) =>
               /\ ~result.Success
               /\ result.Error \in {ErrNotExist, ErrFinished}
               /\ \/ StringsContains(result.Message, result.Error)
                  \/ StringsContains(result.Message, "may have already terminated")

C16_Witness ==
    /\ pc = "done" /\ entryPoint = "Kill" /\ Len(calls) = 2
    /\ calls[1].target = "node.exe" /\ calls[2].target = NoProc
    /\ ~result.Success /\ result.Error = ErrFinished

\* C17: ForceKill resolves no name and classifies nothing: for a pid that exists,
\* whatever its name, it makes exactly one forced attempt and reports that attempt's
\* outcome; it makes no graceful attempt and has no fallback.
C17_ForceKillUnguarded ==
    (pc = "done" /\ entryPoint = "ForceKill") =>
        /\ procName = NoName /\ verName = NoName /\ nameErr = Nil
        /\ Len(calls) <= 1
        /\ calls = <<>> => result.Error = ErrNotExist
        /\ Len(calls) = 1 =>
               /\ calls[1].prim = "Kill"
               /\ result.Success = calls[1].ok
               /\ result.Success = (result.Error = Nil)

C17_Witness ==
    /\ pc = "done" /\ entryPoint = "ForceKill" /\ Len(calls) = 1
    /\ calls[1].target = "lsass.exe" /\ result.Success

-----------------------------------------------------------------------------
(* The classifier on its own *)

InitClassifier ==
    /\ clsName \in ClsNames
    /\ clsOut = "none"
    /\ FltIdle
    /\ GetIdle
    /\ procs = [p \in PIDs |-> NoProc]
    /\ osKill = FALSE
    /\ osTerm = FALSE
    /\ entries = <<>>
    /\ pc = "idle"
    /\ entryPoint = "none"
    /\ kpid = 0
    /\ expectedName = NoName
    /\ verName = NoName
    /\ procName = NoName
    /\ nameErr = Nil
    /\ calls = <<>>
    /\ result = NoResult
    /\ ScanAtRest
    /\ AppAtRest

NextClassifier == Classify

SpecClassifier == InitClassifier /\ [][NextClassifier]_vars

InTable(name) == name \in DOMAIN CriticalSystemProcesses

\* the table records the name as deliberately not critical
Overridden(name) == InTable(name) /\ ~CriticalSystemProcesses[name]

SvchostFamily(name) == \E v \in SvchostSpellings : HasPrefix(name, v)

\* C9 as claimed: for every key of the table the base form and the ".exe" form
\* are both classified critical, except the overridden names (explorer), for
\* which both forms are classified not critical.
C9_BothForms ==
    clsOut # "none" =>
        \A k \in DOMAIN CriticalSystemProcesses :
            clsName \in {BaseForm(k), BaseForm(k) \o ".exe"}
                => clsOut = Verdict(~Overridden(BaseForm(k)))

\* C10: every name that begins with "svchost" in any letter case is classified
\* critical, in the table or not; a name that neither is a key of the table, nor
\* becomes one with ".exe" appended, nor begins with that prefix is not critical.
C10_PrefixRule ==
    clsOut # "none" =>
        /\ SvchostFamily(clsName) => clsOut = "true"
        /\ (~InTable(clsName) /\ ~InTable(clsName \o ".exe") /\ ~SvchostFamily(clsName))
               => clsOut = "false"

C10_Witness == clsName = "SvCHOST-net" /\ ~InTable(clsName) /\ clsOut = "true"

-----------------------------------------------------------------------------
(* FilterCriteria.Matches on its own *)

InitMatches ==
    /\ fltCriteria \in FltCriteriaSet
    /\ fltEntry \in FltEntries
    /\ fltOut = "none"
    /\ GetIdle
    /\ clsName = ""
    /\ clsOut = "none"
    /\ procs = [p \in PIDs |-> NoProc]
    /\ osKill = FALSE
    /\ osTerm = FALSE
    /\ entries = <<>>
    /\ pc = "idle"
    /\ entryPoint = "none"
    /\ kpid = 0
    /\ expectedName = NoName
    /\ verName = NoName
    /\ procName = NoName
    /\ nameErr = Nil
    /\ calls = <<>>
    /\ result = NoResult
    /\ ScanAtRest
    /\ AppAtRest

NextMatches == CallMatches

SpecMatches == InitMatches /\ [][NextMatches]_vars

\* the decimal numerals of the numbers the entries carry
Numeral(n) ==
    CASE n = 0 -> "0" [] n = 7 -> "7" [] n = 32 -> "32" [] n = 80 -> "80"
      [] n = 100 -> "100" [] n = 443 -> "443" [] n = 4321 -> "4321" [] n = 8080 -> "8080"

\* two characters that are the same letter in either case
SameLetter(a, b) == a = b \/ UpperChar(a) = b \/ a = UpperChar(b)

SubstringAt(s, i, sub) == SubSeq(s, i + 1, i + Len(sub)) = sub

FoldSubstring(s, sub) ==
    \E i \in 0..(Len(s) - Len(sub)) :
        \A j \in 1..Len(sub) : SameLetter(SubSeq(s, i + j, i + j), SubSeq(sub, j, j))

PlainSubstring(s, sub) == \E i \in 0..(Len(s) - Len(sub)) : SubstringAt(s, i, sub)

\* C20: Matches is true exactly when every non-empty sub-criterion holds: Port a
\* substring of the entry's decimal port, ProcessName a substring of its process
\* name whatever the letter case, PID a substring of its decimal PID. The empty
\* criteria match every entry.
C20_MatchesIsConjunction ==
    fltOut # "none" =>
        fltOut = Verdict(/\ fltCriteria.Port # ""
                              => PlainSubstring(Numeral(fltEntry.Port), fltCriteria.Port)
                         /\ fltCriteria.ProcessName # ""
                              => FoldSubstring(fltEntry.ProcessName, fltCriteria.ProcessName)
                         /\ fltCriteria.PID # ""
                              => PlainSubstring(Numeral(fltEntry.PID), fltCriteria.PID))

C20_Witness ==
    /\ fltCriteria = FilterCriteria("", "CHROME", "")
    /\ fltEntry.ProcessName = "chrome.exe"
    /\ fltOut = "true"

-----------------------------------------------------------------------------
(* Scanner claims *)

Running(s) == scan[s].pc \in {"loop", "done"}

Finished(s) == scan[s].pc = "done" /\ scan[s].err = Nil

Entries(s) == {scan[s].out[i] : i \in 1..Len(scan[s].out)}

\* C11: no entry of a GetConnections call has PID 0, and every entry belongs to a
\* process the call resolved: its pid is in the call's pidCache, it carries the
\* resolved name, and while the OS has not changed since the call began that
\* process exists
C11_OnlyResolvedEntries ==
    \A s \in Scanners : \A e \in Entries(s) :
        /\ e.PID # 0
        /\ e.PID \in DOMAIN scan[s].cache
        /\ e.ProcessName = scan[s].cache[e.PID].Name
        /\ scan[s].stable => Exists(e.PID)

\* a finished scan of a table with a pid-0 connection, a connection of a live
\* process and a connection of a pid nobody occupies
C11_Witness ==
    \E s \in Scanners :
        /\ Finished(s) /\ scan[s].stable
        /\ scan[s].table = TableA /\ scan[s].states = <<>>
        /\ Exists(1) /\ ~Exists(2)
        /\ Len(scan[s].out) = 1

\* connection c passes the pid, protocol and resolution conditions of the scan
Eligible(c) == c.Pid # 0 /\ c.Type \in {1, 2} /\ Exists(c.Pid)

\* C12: a finished GetListeningPorts call, on an OS that did not change since it
\* began, holds an entry for every TCP/UDP connection in the listening state
\* that has a non-zero pid and a resolvable process
C12_ListeningPortsReturned ==
    \A s \in Scanners :
        (Finished(s) /\ scan[s].stable /\ scan[s].api = "GetListeningPorts") =>
            \A i \in 1..Len(scan[s].table) :
                LET c == scan[s].table[i]
                IN  (Eligible(c) /\ c.Status = "LISTEN") =>
                        \E e \in Entries(s) :
                            e.PID = c.Pid /\ e.Port = c.Port /\ e.State = "LISTENING"

\* the entries of `out` whose State is a member of the filter `states`, in order
WithStateIn(out, states) ==
    LET Member(e) == \E i \in 1..Len(states) : states[i] = e.State
    IN  SelectSeq(out, Member)

\* C13: of two finished calls on an OS that did not change since either began,
\* one with a non-empty state filter F and one unfiltered, the filtered result
\* is exactly the unfiltered result restricted to the entries whose State is an
\* exact member of F; and the unfiltered result has one entry per connection
\* with a non-zero pid, protocol TCP or UDP and a resolvable process, carrying
\* the mapped state whatever it is
C13_FilterIsExactMembership ==
    \A a \in Scanners :
        (Finished(a) /\ scan[a].stable) =>
            /\ scan[a].states # <<>> =>
                  \A b \in Scanners \ {a} :
                      (Finished(b) /\ scan[b].stable /\ scan[b].states = <<>>) =>
                          scan[a].out = WithStateIn(scan[b].out, scan[a].states)
            /\ scan[a].states = <<>> =>
                  /\ Len(scan[a].out) =
                         Cardinality({i \in 1..Len(scan[a].table) : Eligible(scan[a].table[i])})
                  /\ \A i \in 1..Len(scan[a].table) :
                         LET c == scan[a].table[i]
                         IN  Eligible(c) =>
                                 \E e \in Entries(a) :
                                     /\ e.PID = c.Pid /\ e.Port = c.Port
                                     /\ e.State = IF c.Status = "LISTEN" THEN "LISTENING"
                                                  ELSE c.Status

\* a filtered and an unfiltered call finished on the same stable table, the
\* filter keeping some entries (a raw LISTEN one) and dropping others
C13_Witness ==
    \E a, b \in Scanners :
        /\ Finished(a) /\ Finished(b) /\ scan[a].stable /\ scan[b].stable
        /\ scan[a].states = <<"LISTENING">> /\ scan[b].states = <<>>
        /\ scan[a].table = TableA
        /\ Len(scan[a].out) = 1 /\ Len(scan[b].out) = 2

\* how many times entry e occurs in the list `out`
Occurrences(e, out) == Cardinality({i \in 1..Len(out) : out[i] = e})

\* C14: when an unfiltered GetConnections call begins after another unfiltered
\* call has returned, both succeed, and the connection table, the process
\* table and the clock have not changed since the first began, the two lists
\* hold the same entries the same number of times
C14_ScanIdempotent ==
    \A a, b \in Scanners :
        (/\ a # b
         /\ Finished(a) /\ Finished(b)
         /\ scan[b].after
         /\ scan[a].stable /\ scan[b].stable
         /\ scan[a].states = <<>> /\ scan[b].states = <<>>) =>
            /\ Entries(a) = Entries(b)
            /\ \A e \in Entries(a) : Occurrences(e, scan[a].out) = Occurrences(e, scan[b].out)

\* two consecutive unfiltered scans of an unchanged OS, both returning entries
C14_Witness ==
    \E a, b \in Scanners :
        /\ a # b /\ Finished(a) /\ Finished(b) /\ scan[b].after
        /\ scan[a].stable /\ scan[b].stable
        /\ scan[a].states = <<>> /\ scan[b].states = <<>>
        /\ Len(scan[a].out) = 2

\* C15: whatever another GetConnections call does meanwhile, a call that
\* returned on an OS that did not change since it began holds exactly the
\* entries GetConnections computes in one piece from that table and that OS
\* state, and its pidCache holds only what it resolved itself from that state
C15_CallsIndependent ==
    \A s \in Scanners :
        (Finished(s) /\ scan[s].stable) =>
            /\ scan[s].out = GetConnectionsOf(scan[s].table, scan[s].states, readable)
            /\ \A p \in DOMAIN scan[s].cache :
                   scan[s].cache[p] = GetProcessInfo(p, readable)

\* the second call began while the first was in its loop, after an OS change
\* the first had already cached a process before; the second returned with a
\* different record for that process while the first is still looping
C15_Witness ==
    /\ Finished("second") /\ scan["second"].stable /\ ~scan["second"].after
    /\ scan["first"].pc = "loop" /\ ~scan["first"].stable
    /\ \E p \in DOMAIN scan["first"].cache \cap DOMAIN scan["second"].cache :
           scan["first"].cache[p] # scan["second"].cache[p]
    /\ scan["second"].out # <<>>

-----------------------------------------------------------------------------
(* Consumer claims *)

\* every call the consumers make into the Killer is Kill, and a termination
\* primitive is invoked only inside a Kill that resolved a name and classified
\* it as not critical
ConsumersEnterThroughKill ==
    /\ entryPoint \in {"none", "Kill"}
    /\ calls # <<>> => (entryPoint = "Kill" /\ Resolved /\ ~IsCriticalProcess(procName))

\* the process a primitive of the running call terminated
Terminated(i) == calls[i].ok

\* C18: the consumers (the TUI confirmation handler and the CLI kill command)
\* enter the Killer through Kill only, and no process they terminate has a
\* name that is classified critical
C18_NoCriticalTerminated ==
    /\ entryPoint \in {"none", "Kill"}
    /\ \A i \in 1..Len(calls) : Terminated(i) => ~IsCriticalProcess(calls[i].target)

\* C19: in the TUI, control is inside Kill only while a 'y' or 'Y' key event
\* received with the kill confirmation dialog on screen is being handled; a
\* 'k' key event never enters Kill; 'n', 'N' or 'esc' in the dialog close it
\* without entering Kill and leave the entry list and the filtered list as
\* they were
C19_KillOnlyOnConfirm ==
    [][app = "tui" =>
          /\ pc' # "idle" => (event'.key \in {"y", "Y"} /\ event'.dialog)
          /\ (pc = "idle" /\ pc' # "idle") =>
                 (DialogShowing /\ pc' = "Kill.name" /\ entryPoint' = "Kill")
          /\ KeyPress("k") =>
                 (pc' = "idle" /\ UNCHANGED <<osVars, callVars, entries>>)
          /\ \A key \in {"n", "N", "esc"} :
                 KeyInKillConfirm(key) =>
                     /\ ~m'.showKillConfirm
                     /\ pc' = "idle"
                     /\ UNCHANGED <<osVars, callVars, entries>>
                     /\ m'.filtered = m.filtered
      ]_vars

\* 'y' was pressed in the dialog and control is inside Kill
C19_Witness ==
    /\ app = "tui" /\ pc = "Kill.name" /\ entryPoint = "Kill"
    /\ event.key \in {"y", "Y"} /\ event.dialog
    /\ ~m.showKillConfirm

-----------------------------------------------------------------------------
(* The TUI: what the dialog names, what 'k' picked, what 'y' kills *)

\* control is inside the Kill that a key event in the kill dialog started
KillFromDialog == app = "tui" /\ pc # "idle" /\ event.dialog

\* C24: the process the kill dialog names (renderKillConfirm) is the one whose
\* pid handleKillConfirm passes to Kill on 'y', on every page and selection
C24_DialogNamesKilled ==
    KillFromDialog =>
        /\ event.shown[1].PID = kpid
        /\ event.shown[1].ProcessName = event.taken[1].ProcessName

\* C25: the pid that 'y' passes to Kill is the pid of the entry that was selected
\* when 'k' opened the dialog, whatever messages Update handled in between
C25_KilledIsPicked ==
    KillFromDialog => kpid = event.picked[1].PID

-----------------------------------------------------------------------------
(* The guarded kill while the pid changes hands *)

\* primitive i of the running call met a live process
MetProcess(i) == calls[i].target # NoProc

\* C26: whenever Kill(pid) invokes a termination primitive, the process then at
\* pid is the one whose name Kill resolved and classified, even when the pid
\* changed hands after the resolution
C26_KillsTheResolvedProcess ==
    entryPoint = "Kill" =>
        \A i \in 1..Len(calls) : MetProcess(i) => calls[i].target = procName

\* C27: KillWithName(pid, expectedName) terminates no process whose name differs
\* from expectedName, even when the pid changes hands after its verification
C27_KillWithNameKillsExpected ==
    entryPoint = "KillWithName" =>
        \A i \in 1..Len(calls) : Terminated(i) => calls[i].target = expectedName

-----------------------------------------------------------------------------
(* The TUI: the list after a kill *)

\* Update is inside m.kill.Kill, or about to leave handleKillConfirm
KillStep_Tui ==
    \/ Kill_getProcessName
    \/ Kill_NewProcess
    \/ Kill_pKill
    \/ Kill_pTerminate
    \/ KillConfirm_Return

\* the runtime runs every command it was handed and a call of Kill runs to its
\* end; a message sent to the program's channel is received however often
\* Update is busy with a key in between; the user and the OS owe nothing
RuntimeFairness ==
    /\ WF_vars(RefreshCmd_Run)
    /\ WF_vars(RefreshCmd_Scan)
    /\ SF_vars(Update_refreshResult)
    /\ SF_vars(Update_refreshError)
    /\ WF_vars(KillStep_Tui)

SpecAppFair == InitApp /\ [][NextApp]_vars /\ RuntimeFairness

\* C28: after a successful Kill from the TUI, as long as the program runs, Update
\* eventually handles the message of a scan made after that kill (its result
\* replaces the list; a scan that failed has none), also when a refresh was
\* under way as the kill was confirmed
C28_ListRefreshedAfterKill == owed ~> (~owed \/ run # "running")

-----------------------------------------------------------------------------
(* The TUI: one refresh at a time *)

\* a scan of the refresh command is under way, or its message waits for Update
ScanInProgress == rmsg.kind \in {"scanning", "refreshResult", "refreshError"}

\* a refresh command ran in this step
RefreshCmdRan == cmds' = cmds - 1

\* C29: at most one scan of the refresh command is in progress: m.refreshing is
\* set exactly while a scan runs or its message is pending; a refresh command
\* that runs while the flag is set starts no scan and leaves the pending
\* message alone; a scan starts only when none is in progress; and the flag
\* goes down only as Update handles that scan's refreshResult or refreshError
C29_OneRefreshAtATime ==
    /\ [](app = "tui" => (m.refreshing <=> ScanInProgress))
    /\ [][app = "tui" =>
            /\ (RefreshCmdRan /\ m.refreshing) => (rmsg' = rmsg /\ m' = m)
            /\ (rmsg'.kind = "scanning" /\ rmsg' # rmsg) => ~ScanInProgress
            /\ (m.refreshing /\ ~m'.refreshing) =>
                   /\ rmsg.kind \in {"refreshResult", "refreshError"}
                   /\ rmsg' = NoMsg
                   /\ pc = "idle" /\ pc' = "idle"]_vars

\* the refresh command returned after a kill has run while the message of an
\* earlier scan was waiting, and that message still waits
C29_Witness ==
    /\ app = "tui" /\ run = "running"
    /\ owed /\ cmds = 0
    /\ rmsg.kind = "refreshResult" /\ rmsg.stale
    /\ m.refreshing

-----------------------------------------------------------------------------
(* The TUI: the filtered list *)

\* the entries, in their order, that satisfy m.filter; all of them when the
\* criteria is empty
Satisfying(ents, f) ==
    LET Pick[i \in 0..Len(ents)] ==
            IF i = 0 THEN <<>>
            ELSE IF IsEmpty(f) \/ Matches(f, ents[i])
                 THEN Append(Pick[i - 1], ents[i])
                 ELSE Pick[i - 1]
    IN  Pick[Len(ents)]

\* C30: in every state of the TUI, m.filtered is the sub-sequence of m.entries
\* that satisfies m.filter, whatever keys, search input and refresh messages
\* came before
C30_FilteredIsFilterOfEntries ==
    app = "tui" => m.filtered = Satisfying(entries, m.filter)

\* a refresh result has arrived while a filter was set, and the filter keeps
\* some entries and drops others
C30_Witness ==
    /\ app = "tui" /\ run = "running"
    /\ ~IsEmpty(m.filter)
    /\ ~m.isLoading /\ ~m.searchMode
    /\ Len(m.filtered) > 0
    /\ Len(m.filtered) < Len(entries)

-----------------------------------------------------------------------------
(* The process getter on its own *)

\* a query either answers one of two values or fails, leaving one of two values behind
AnswersOver(vals) == {Answer(ok, v) : ok \in BOOLEAN, v \in vals}

GetterQueries ==
    [Name       : AnswersOver({"", "node.exe"}),
     ExePath    : AnswersOver({"", "C:/node.exe"}),
     ParentPID  : AnswersOver({0, 4}),
     CreateTime : AnswersOver({0, 1000})]

InitGetter ==
    /\ \E pid \in PIDs :
          \/ getArg = [pid |-> pid, found |-> FALSE, q |-> <<>>]
          \/ \E q \in GetterQueries : getArg = [pid |-> pid, found |-> TRUE, q |-> q]
    /\ getOut = NoInfo
    /\ now = 3
    /\ conns = <<>>
    /\ readable = [p \in PIDs |-> TRUE]
    /\ createTime = [p \in PIDs |-> 1000]
    /\ changes = 0
    /\ scan = [s \in Scanners |-> IdleScan]
    /\ clsName = ""
    /\ clsOut = "none"
    /\ FltIdle
    /\ procs = [p \in PIDs |-> NoProc]
    /\ osKill = FALSE
    /\ osTerm = FALSE
    /\ entries = <<>>
    /\ pc = "idle"
    /\ entryPoint = "none"
    /\ kpid = 0
    /\ expectedName = NoName
    /\ verName = NoName
    /\ procName = NoName
    /\ nameErr = Nil
    /\ calls = <<>>
    /\ result = NoResult
    /\ AppAtRest

NextGetter == CallGetProcessInfo

SpecGetter == InitGetter /\ [][NextGetter]_vars

\* what a query contributes to the ProcessInfo: its value, or the default when it failed
ReadOr(answer, default) == IF answer.ok THEN answer.val ELSE default

\* C21: GetProcessInfo fails exactly when the OS has no such process; for a found
\* process every attribute is the one read or, when its own query failed, its
\* default ("unknown", "", 0, start 0 with uptime 0), whatever the other queries did
C21_AttributeDefaults ==
    getOut # NoInfo =>
        /\ getOut.err # Nil <=> ~getArg.found
        /\ getArg.found =>
              /\ getOut.PID = getArg.pid
              /\ getOut.Name = ReadOr(getArg.q.Name, "unknown")
              /\ getOut.ExePath = ReadOr(getArg.q.ExePath, "")
              /\ getOut.ParentPID = ReadOr(getArg.q.ParentPID, 0)
              /\ getOut.CreateTime = ReadOr(getArg.q.CreateTime, 0) \div 1000
              /\ ~getArg.q.CreateTime.ok => getOut.Uptime = 0
              /\ (getArg.q.CreateTime.ok /\ getArg.q.CreateTime.val > 0) =>
                     getOut.Uptime = now - getOut.CreateTime

\* the name query alone failed, leaving a value behind: the call succeeded with
\* "unknown" and the three other attributes as read
C21_Witness ==
    /\ getOut # NoInfo
    /\ getArg.found
    /\ getArg.q.Name = Answer(FALSE, "node.exe")
    /\ getArg.q.ExePath.ok /\ getArg.q.ParentPID.ok /\ getArg.q.CreateTime.ok
    /\ getOut.err = Nil
    /\ getOut.Name = "unknown"
    /\ getOut.ExePath = "C:/node.exe"
    /\ getOut.ParentPID = 4
    /\ getOut.Uptime = 2

-----------------------------------------------------------------------------
(* The scan: the Resolver behind the per-call cache *)

\* the invocations of the Resolver that call s made so far, in order
AskedBy(s) == scan[s].asked

\* C22 as claimed: within one GetConnections call the Resolver is invoked at most
\* once for each pid, whether its resolution succeeds or fails
C22_ResolvedOncePerPid ==
    \A s \in Scanners : \A i, j \in 1..Len(AskedBy(s)) :
        AskedBy(s)[i].pid = AskedBy(s)[j].pid => i = j

\* C22 amended: within one GetConnections call the Resolver is not invoked again
\* for a pid it has resolved successfully; an invocation that failed may be
\* repeated at the next connection of that pid
C22_ResolvedOnceAfterSuccess ==
    \A s \in Scanners : \A i, j \in 1..Len(AskedBy(s)) :
        (i < j /\ AskedBy(s)[i].pid = AskedBy(s)[j].pid) => ~AskedBy(s)[i].ok

\* a call met two connections of one live pid, emitted both and asked once
C22_Witness ==
    \E s \in Scanners :
        /\ Finished(s)
        /\ \E i, j \in 1..Len(scan[s].out) :
              i < j /\ scan[s].out[i].PID = scan[s].out[j].PID
        /\ Len(AskedBy(s)) = 1
        /\ AskedBy(s)[1].ok

-----------------------------------------------------------------------------
(* The lookups by port and by pid, one call at a time *)

LookupPorts == {8080, 5432, 53, 3000}

NextLookup ==
    \/ \E port \in LookupPorts : CallGetEntriesByPort("first", port)
    \/ \E pid \in TablePids : CallGetEntriesByPID("first", pid)
    \/ \E api \in Lookups : GetEntriesBy_Fails("first", api, 8080)
    \/ GetConnections_Loop("first")
    \/ GetConnections_Return("first")
    \/ GetEntriesBy_Return("first")
    \/ ScanRelease
    \/ \E pid \in TablePids : OsExit(pid)
    \/ \E pid \in TablePids, name \in ScanNames : OsStart(pid, name)
    \/ OsTick
    \/ \E table \in ConnTables : OsConnections(table)

SpecLookup == InitScan /\ [][NextLookup]_vars

\* the entries an unfiltered scan of the OS of the state returns, in one piece
FullScan == GetConnectionsOf(conns, <<>>, readable)

\* C23: a lookup that returned without error while the OS stood still returns the
\* entries of a full unfiltered scan that have its port (GetEntriesByPort) or its
\* pid (GetEntriesByPID), all of them, in scan order, whatever their state
C23_LookupIsScanThenEquality ==
    \A s \in Scanners :
        (Finished(s) /\ scan[s].api \in Lookups /\ scan[s].stable) =>
            LET Picked(en) == IF scan[s].api = "GetEntriesByPort"
                              THEN en.Port = scan[s].arg
                              ELSE en.PID = scan[s].arg
            IN  /\ scan[s].states = <<>>
                /\ scan[s].res = SelectSeq(FullScan, Picked)

\* a lookup by pid returned the two entries of its pid, of different ports and
\* states and one of them in no state at all, in the order of the scan
C23_Witness ==
    \E s \in Scanners :
        /\ Finished(s) /\ scan[s].api = "GetEntriesByPID" /\ scan[s].stable
        /\ Len(scan[s].res) = 2
        /\ scan[s].res[1].Port = 53 /\ scan[s].res[1].State = ""
        /\ scan[s].res[2].Port = 3000
        /\ scan[s].res = FullScan

====
